---- MODULE Spec2Model ----
(***************************************************************************)
(* Entity model and reconciliation engine of otterdog:                     *)
(*   - ModelObject.keys / get_difference_from (models/__init__.py)         *)
(*   - OrganizationSettings.generate_live_patch (organization_settings.py) *)
(*   - LivePatch and its constructors (models/__init__.py)                 *)
(* A reconciliation pass is a process whose position is pc; the handler    *)
(* callback appends every LivePatch it is given to patches.                *)
(***************************************************************************)
EXTENDS Integers, Sequences, FiniteSets, TLC

VARIABLES
    expected_object,    \* the entity of the desired-state document
    current_object,     \* the entity of the provider's live state
    pc,                 \* position of the pass
    diff_result,        \* result of a bare get_difference_from call
    modified_settings,  \* local of OrganizationSettings.generate_live_patch
    context,            \* the LivePatchContext of the pass
    patches,            \* the LivePatches handed to the handler, in order
    provider_calls,     \* the calls made on the provider, in order
    apply_error,        \* whether an apply raised to its caller
    input_data,         \* a document or dict handed to a conversion
    provider_data,      \* result of a bare dict_to_provider_data call
    validation_context, \* the ValidationContext of a validation pass
    validation_parent,  \* the parent handed to validate
    passes,             \* per organization, the state of its reconciliation pass
    heap,               \* the dicts the passes hold references to
    files,              \* the content of each file that exists
    operation,          \* the operation that is run, with the locals of its execute
    task                \* the CheckConfigurationInSyncTask that is run

apply_vars == <<provider_calls, apply_error>>

data_vars == <<input_data, provider_data>>

validation_vars == <<validation_context, validation_parent>>

operation_vars == <<passes, heap, files, operation, task>>

vars == <<expected_object, current_object, pc, diff_result, modified_settings,
          context, patches, apply_vars, data_vars, validation_vars, operation_vars>>

---------------------------------------------------------------------------
(* Values.  Every field value is a record of one shape, so that any two    *)
(* values can be compared: kind says which of the slots is meaningful.     *)

UNSET == [kind |-> "unset", b |-> FALSE, s |-> "", l |-> <<>>]

None == [kind |-> "none", b |-> FALSE, s |-> "", l |-> <<>>]

Bool(x) == [kind |-> "bool", b |-> x, s |-> "", l |-> <<>>]

Str(x) == [kind |-> "str", b |-> FALSE, s |-> x, l |-> <<>>]

List(x) == [kind |-> "list", b |-> FALSE, s |-> "", l |-> x]

is_unset(value) == value.kind = "unset"

is_set_and_valid(value) == ~is_unset(value) /\ value.kind # "none"

\* number of occurrences of x in the list q
Count(x, q) == Cardinality({i \in 1..Len(q) : q[i] = x})

Range(q) == {q[i] : i \in 1..Len(q)}

\* sorted(a) = sorted(b): the two lists hold the same elements equally often
SameSorted(a, b) ==
    /\ Len(a) = Len(b)
    /\ \A x \in Range(a) \cup Range(b) : Count(x, a) = Count(x, b)

is_different_ignoring_order(value, other_value) ==
    IF value.kind = "list" /\ other_value.kind = "list"
    THEN ~SameSorted(value.l, other_value.l)
    ELSE value # other_value

Change(from_value, to_value) == [from_value |-> from_value, to_value |-> to_value]

---------------------------------------------------------------------------
(* Entity schema: the dataclass fields of each model class in declaration  *)
(* order, and the metadata of each field.  Of the 29 plain fields of       *)
(* OrganizationSettings the model keeps those the code treats specially    *)
(* and one list-valued one.                                                *)

SettingsCls == "OrganizationSettings"

WebhookCls == "OrganizationWebhook"

PropertyCls == "CustomProperty"

WorkflowCls == "OrganizationWorkflowSettings"

RepositoryCls == "Repository"

OrganizationCls == "GitHubOrganization"

OrganizationSettingsFields ==
    << "plan", "has_discussions", "discussion_source_repository",
       "default_code_security_configurations_disabled", "security_managers",
       "workflows", "custom_properties" >>

OrganizationWebhookFields == << "id", "active", "url", "secret" >>

CustomPropertyFields == << "name", "required" >>

OrganizationWorkflowSettingsFields == << "enabled_repositories" >>

\* of the fields of Repository, those its validate reads
RepositoryFields ==
    << "name", "private", "has_wiki", "allow_forking",
       "web_commit_signoff_required", "branch_protection_rules" >>

all_fields(cls) ==
    CASE cls = SettingsCls -> OrganizationSettingsFields
      [] cls = WebhookCls -> OrganizationWebhookFields
      [] cls = PropertyCls -> CustomPropertyFields
      [] cls = WorkflowCls -> OrganizationWorkflowSettingsFields
      [] cls = RepositoryCls -> RepositoryFields

\* field.metadata.get(flag, False) is True
Metadata(cls, field, flag) ==
    CASE cls = SettingsCls ->
           \/ flag = "read_only" /\ field \in {"plan"}
           \/ flag = "nested_model" /\ field \in {"workflows", "custom_properties"}
      [] cls = WebhookCls ->
           \/ flag = "external_only" /\ field = "id"
           \/ flag = "key" /\ field = "url"
      [] cls = PropertyCls -> flag = "key" /\ field = "name"
      [] cls = WorkflowCls -> FALSE
      [] cls = RepositoryCls ->
           \/ flag = "key" /\ field = "name"
           \/ flag = "nested_model" /\ field = "branch_protection_rules"

is_external_only(cls, field) == Metadata(cls, field, "external_only")

is_read_only(cls, field) == Metadata(cls, field, "read_only")

is_model_only(cls, field) == Metadata(cls, field, "model_only")

is_nested_model(cls, field) == Metadata(cls, field, "nested_model")

model_fields(cls) ==
    SelectSeq(all_fields(cls), LAMBDA field : ~is_external_only(cls, field))

\* An entity is [cls, v, n]: v maps each plain field to its value, n maps
\* each nested-model field to [kind, obj, objs] (unset, one entity, a list).
getattribute(self, key) ==
    IF is_nested_model(self.cls, key) THEN self.n[key] ELSE self.v[key]

get_key(cls) ==
    LET keyed == SelectSeq(all_fields(cls), LAMBDA field : Metadata(cls, field, "key"))
    IN  keyed[1]

\* faulty variant: the value of the last field instead of the key field
get_key_value_of_last_field(self) ==
    getattribute(self, all_fields(self.cls)[Len(all_fields(self.cls))])

get_key_value(self) == getattribute(self, get_key(self.cls))

\* faulty variant: no field is conditionally excluded
include_field_for_diff_computation_always(self, field) == TRUE

include_field_for_diff_computation(self, field) ==
    CASE self.cls = SettingsCls ->
           ~(/\ getattribute(self, "has_discussions") = Bool(FALSE)
             /\ field = "discussion_source_repository")
      [] self.cls = WebhookCls -> field # "secret"
      [] OTHER -> TRUE

include_field_for_patch_computation(self, field) ==
    CASE self.cls \in {SettingsCls, WebhookCls} -> TRUE
      [] OTHER -> include_field_for_diff_computation(self, field)

keys(self, for_diff, for_patch, include_nested_models, exclude_unset_keys) ==
    SelectSeq(model_fields(self.cls), LAMBDA field :
        /\ ~(for_diff /\ ~include_field_for_diff_computation(self, field))
        /\ ~(for_patch /\ ~include_field_for_patch_computation(self, field))
        /\ ~((for_diff \/ for_patch) /\ is_model_only(self.cls, field))
        /\ ~(~include_nested_models /\ is_nested_model(self.cls, field))
        /\ (exclude_unset_keys => ~is_unset(getattribute(self, field))))

\* faulty variant: the check of from_value (lines 183-184) is missing
get_difference_from_keeps_unset(self, other) ==
    LET ks == keys(self, TRUE, FALSE, FALSE, TRUE)
        hit == {ks[i] : i \in {j \in 1..Len(ks) :
                   is_different_ignoring_order(getattribute(self, ks[j]),
                                               getattribute(other, ks[j]))}}
    IN  [key \in hit |-> Change(getattribute(other, key), getattribute(self, key))]

\* the dict built by the loop of get_difference_from: a function whose
\* domain is the set of keys that got an entry
get_difference_from(self, other) ==
    LET ks == keys(self, TRUE, FALSE, FALSE, TRUE)
        hit == {ks[i] : i \in {j \in 1..Len(ks) :
                   /\ ~is_unset(getattribute(other, ks[j]))
                   /\ is_different_ignoring_order(getattribute(self, ks[j]),
                                                  getattribute(other, ks[j]))}}
    IN  [key \in hit |-> Change(getattribute(other, key), getattribute(self, key))]

---------------------------------------------------------------------------
(* Entities.                                                               *)

NoneObject == [cls |-> "NoneType", v |-> <<>>, n |-> <<>>]

is_none(object) == object.cls = "NoneType"

NestedUnset == [kind |-> "unset", obj |-> NoneObject, objs |-> <<>>]

NestedObject(object) == [kind |-> "obj", obj |-> object, objs |-> <<>>]

NestedList(objects) == [kind |-> "list", obj |-> NoneObject, objs |-> objects]

CustomProperty(name, required) ==
    [cls |-> PropertyCls, v |-> [name |-> name, required |-> required], n |-> <<>>]

OrganizationWorkflowSettings(enabled_repositories) ==
    [cls |-> WorkflowCls, v |-> [enabled_repositories |-> enabled_repositories],
     n |-> <<>>]

OrganizationWebhook(id, active, url, secret) ==
    [cls |-> WebhookCls,
     v |-> [id |-> id, active |-> active, url |-> url, secret |-> secret],
     n |-> <<>>]

OrganizationSettings(plan, has_discussions, discussion_source_repository, default_code_security_configurations_disabled, security_managers, workflows, custom_properties) ==
    [cls |-> SettingsCls,
     v |-> [plan |-> plan,
            has_discussions |-> has_discussions,
            discussion_source_repository |-> discussion_source_repository,
            default_code_security_configurations_disabled |->
                default_code_security_configurations_disabled,
            security_managers |-> security_managers],
     n |-> [workflows |-> workflows, custom_properties |-> custom_properties]]

Repository(name, private, has_wiki, allow_forking, web_commit_signoff_required, branch_protection_rules) ==
    [cls |-> RepositoryCls,
     v |-> [name |-> name, private |-> private, has_wiki |-> has_wiki,
            allow_forking |-> allow_forking,
            web_commit_signoff_required |-> web_commit_signoff_required],
     n |-> [branch_protection_rules |-> branch_protection_rules]]

\* the organization an entity belongs to, as far as validate reads it
GitHubOrganization(settings) ==
    [cls |-> OrganizationCls, v |-> <<>>, n |-> [settings |-> NestedObject(settings)]]

\* an entity with further plain fields of its class set
WithAttributes(self, attributes) == [self EXCEPT !.v = attributes @@ self.v]

---------------------------------------------------------------------------
(* LivePatch.  changes is Optional: [kind |-> "none"] or a dict.           *)

NoChanges == [kind |-> "none", d |-> <<>>]

Changes(d) == [kind |-> "dict", d |-> d]

LivePatch(patch_type, expected, current, changes, parent_object, forced_update, fn) ==
    [patch_type |-> patch_type, expected_object |-> expected,
     current_object |-> current, changes |-> changes,
     parent_object |-> parent_object, forced_update |-> forced_update, fn |-> fn]

of_addition(expected, parent_object, fn) ==
    LivePatch("ADD", expected, NoneObject, NoChanges, parent_object, FALSE, fn)

\* faulty variant: a deletion that also carries the entity as expected
of_deletion_with_expected(current, parent_object, fn) ==
    LivePatch("REMOVE", current, current, NoChanges, parent_object, FALSE, fn)

of_deletion(current, parent_object, fn) ==
    LivePatch("REMOVE", NoneObject, current, NoChanges, parent_object, FALSE, fn)

of_changes(expected, current, changes, parent_object, forced_update, fn) ==
    LivePatch("CHANGE", expected, current, Changes(changes), parent_object,
              forced_update, fn)

\* cls.apply_live_patch, the bound apply function of a patch
apply_live_patch(cls) == cls

DictLen(d) == Cardinality(DOMAIN d)

---------------------------------------------------------------------------
(* Reconciliation of the nested children of the organization settings.     *)
(* The operators return the patches handed to the handler, in order.       *)

RECURSIVE Flatten(_)
Flatten(qq) == IF qq = <<>> THEN <<>> ELSE Head(qq) \o Flatten(Tail(qq))

\* reconcile of one entity without children of its own: REMOVE when only the
\* current one exists, ADD when only the expected one exists, else one
\* CHANGE iff the field diff is non-empty
child_generate_live_patch(expected, current, parent_object) ==
    IF is_none(expected)
    THEN << of_deletion(current, parent_object, apply_live_patch(current.cls)) >>
    ELSE IF is_none(current)
    THEN << of_addition(expected, parent_object, apply_live_patch(expected.cls)) >>
    ELSE LET changes == get_difference_from(expected, current)
         IN  IF DictLen(changes) > 0
             THEN << of_changes(expected, current, changes, parent_object, FALSE,
                                apply_live_patch(expected.cls)) >>
             ELSE <<>>

\* the index of a list by identity key: key -> element (the last one wins)
IndexByKey(objects) ==
    [key \in {get_key_value(objects[i]) : i \in 1..Len(objects)} |->
        objects[CHOOSE i \in 1..Len(objects) :
                  /\ get_key_value(objects[i]) = key
                  /\ \A j \in (i + 1)..Len(objects) : get_key_value(objects[j]) # key]]

generate_live_patch_of_list(expected_objects, current_objects, parent_object) ==
    LET current_by_key == IndexByKey(current_objects)
        expected_by_key == IndexByKey(expected_objects)
        for_expected == [i \in 1..Len(expected_objects) |->
            LET e == expected_objects[i]
            IN  IF get_key_value(e) \in DOMAIN current_by_key
                THEN child_generate_live_patch(e, current_by_key[get_key_value(e)],
                                               parent_object)
                ELSE child_generate_live_patch(e, NoneObject, parent_object)]
        for_current == [i \in 1..Len(current_objects) |->
            LET c == current_objects[i]
            IN  IF get_key_value(c) \in DOMAIN expected_by_key
                THEN <<>>
                ELSE child_generate_live_patch(NoneObject, c, parent_object)]
    IN  Flatten(for_expected) \o Flatten(for_current)

---------------------------------------------------------------------------
(* OrganizationSettings.generate_live_patch, step by step.                 *)

\* faulty variant: the direction of the one-way flag is reversed
drop_disallowed_changes_reversed(modified) ==
    LET flag == "default_code_security_configurations_disabled"
    IN  IF /\ flag \in DOMAIN modified
           /\ modified[flag].from_value = Bool(FALSE)
           /\ modified[flag].to_value = Bool(TRUE)
        THEN [key \in DOMAIN modified \ {flag} |-> modified[key]]
        ELSE modified

\* lines 241-246: the one-way flag
drop_disallowed_changes(modified) ==
    LET flag == "default_code_security_configurations_disabled"
    IN  IF /\ flag \in DOMAIN modified
           /\ modified[flag].from_value = Bool(TRUE)
           /\ modified[flag].to_value = Bool(FALSE)
        THEN [key \in DOMAIN modified \ {flag} |-> modified[key]]
        ELSE modified

\* faulty variant: the handler is called whatever the size of the change set
settings_patches_unguarded(expected, current, modified, parent_object) ==
    << of_changes(expected, current, modified, parent_object, FALSE,
                  apply_live_patch(SettingsCls)) >>

\* lines 248-253: the handler call for the settings themselves
settings_patches(expected, current, modified, parent_object) ==
    IF DictLen(modified) > 0
    THEN << of_changes(expected, current, modified, parent_object, FALSE,
                       apply_live_patch(SettingsCls)) >>
    ELSE <<>>

\* faulty variant: the custom properties are reconciled only when the
\* settings themselves changed
custom_properties_patches_if_changed(expected, current) ==
    IF /\ DictLen(drop_disallowed_changes(get_difference_from(expected, current))) > 0
       /\ is_set_and_valid(getattribute(expected, "custom_properties"))
    THEN generate_live_patch_of_list(getattribute(expected, "custom_properties").objs,
                                     getattribute(current, "custom_properties").objs,
                                     expected)
    ELSE <<>>

\* lines 257-264
custom_properties_patches(expected, current) ==
    IF is_set_and_valid(getattribute(expected, "custom_properties"))
    THEN generate_live_patch_of_list(getattribute(expected, "custom_properties").objs,
                                     getattribute(current, "custom_properties").objs,
                                     expected)
    ELSE <<>>

\* lines 266-269
workflows_patches(expected, current) ==
    IF is_set_and_valid(getattribute(expected, "workflows"))
    THEN child_generate_live_patch(getattribute(expected, "workflows").obj,
                                   getattribute(current, "workflows").obj,
                                   expected)
    ELSE <<>>

\* faulty variant: the children are reconciled before the handler is called
\* for the settings
StepOrder_children_first ==
    << "generate_live_patch", "custom_properties", "workflows", "emit", "done" >>

\* faulty variant: the workflows are reconciled before the custom properties
StepOrder_workflows_first ==
    << "generate_live_patch", "emit", "workflows", "custom_properties", "done" >>

\* the order of the statements of generate_live_patch: the diff and its
\* filter (238-246), the handler call and the context (248-255), the custom
\* properties (257-264), the workflows (266-269)
StepOrder == << "generate_live_patch", "emit", "custom_properties", "workflows", "done" >>

NextStep(step) ==
    StepOrder[1 + CHOOSE i \in 1..Len(StepOrder) : StepOrder[i] = step]

\* faulty variant: the unfiltered diff is recorded in the context at once
ComputeModifiedSettings_recording_diff ==
    /\ pc = "generate_live_patch"
    /\ modified_settings' =
          drop_disallowed_changes(get_difference_from(expected_object, current_object))
    /\ context' = [context EXCEPT !.modified_org_settings =
                      get_difference_from(expected_object, current_object)]
    /\ pc' = NextStep(pc)
    /\ UNCHANGED <<expected_object, current_object, diff_result, patches>>
    /\ UNCHANGED <<apply_vars, data_vars, validation_vars>>
    /\ UNCHANGED operation_vars

\* lines 235-246
ComputeModifiedSettings ==
    /\ pc = "generate_live_patch"
    /\ expected_object.cls = SettingsCls
    /\ current_object.cls = SettingsCls
    /\ modified_settings' =
          drop_disallowed_changes(get_difference_from(expected_object, current_object))
    /\ pc' = NextStep(pc)
    /\ UNCHANGED <<expected_object, current_object, diff_result, context, patches>>
    /\ UNCHANGED <<apply_vars, data_vars, validation_vars>>
    /\ UNCHANGED operation_vars

\* faulty variant: the change set is not recorded in the context
EmitSettingsChange_without_record ==
    /\ pc = "emit"
    /\ patches' = patches \o settings_patches(expected_object, current_object,
                                              modified_settings, NoneObject)
    /\ pc' = NextStep(pc)
    /\ UNCHANGED <<expected_object, current_object, diff_result, modified_settings,
                   context>>
    /\ UNCHANGED <<apply_vars, data_vars, validation_vars>>
    /\ UNCHANGED operation_vars

\* lines 248-255
EmitSettingsChange ==
    /\ pc = "emit"
    /\ patches' = patches \o settings_patches(expected_object, current_object,
                                              modified_settings, NoneObject)
    /\ context' = [context EXCEPT !.modified_org_settings = modified_settings]
    /\ pc' = NextStep(pc)
    /\ UNCHANGED <<expected_object, current_object, diff_result, modified_settings>>
    /\ UNCHANGED <<apply_vars, data_vars, validation_vars>>
    /\ UNCHANGED operation_vars

\* lines 257-264
ReconcileCustomProperties ==
    /\ pc = "custom_properties"
    /\ patches' = patches \o custom_properties_patches(expected_object, current_object)
    /\ pc' = NextStep(pc)
    /\ UNCHANGED <<expected_object, current_object, diff_result, modified_settings,
                   context>>
    /\ UNCHANGED <<apply_vars, data_vars, validation_vars>>
    /\ UNCHANGED operation_vars

\* lines 266-269
ReconcileWorkflows ==
    /\ pc = "workflows"
    /\ patches' = patches \o workflows_patches(expected_object, current_object)
    /\ pc' = NextStep(pc)
    /\ UNCHANGED <<expected_object, current_object, diff_result, modified_settings,
                   context>>
    /\ UNCHANGED <<apply_vars, data_vars, validation_vars>>
    /\ UNCHANGED operation_vars

\* a bare call expected.get_difference_from(current)
GetDifferenceFrom ==
    /\ pc = "get_difference_from"
    /\ expected_object.cls = current_object.cls
    /\ diff_result' = get_difference_from(expected_object, current_object)
    /\ pc' = "returned"
    /\ UNCHANGED <<expected_object, current_object, modified_settings, context, patches>>
    /\ UNCHANGED <<apply_vars, data_vars, validation_vars>>
    /\ UNCHANGED operation_vars

---------------------------------------------------------------------------
(* Provider payloads and the application of a patch.                       *)

\* faulty variant: read-only fields count as provider fields
provider_fields_with_read_only(cls) ==
    SelectSeq(all_fields(cls), LAMBDA field :
        /\ ~is_external_only(cls, field)
        /\ ~is_model_only(cls, field)
        /\ ~is_nested_model(cls, field))

provider_fields(cls) ==
    SelectSeq(all_fields(cls), LAMBDA field :
        /\ ~is_external_only(cls, field)
        /\ ~is_model_only(cls, field)
        /\ ~is_read_only(cls, field)
        /\ ~is_nested_model(cls, field))

\* data.get(field, UNSET)
DictGet(dict, field) == IF field \in DOMAIN dict THEN dict[field] ELSE UNSET

\* the mapping {field.name: S(field.name)}, as the set of its keys
get_mapping_to_provider(cls, dict) ==
    {field \in Range(provider_fields(cls)) : ~is_unset(DictGet(dict, field))}

\* bend of a mapping of S(field) benders: each key takes its value of dict
bend(mapping, dict) == [field \in mapping |-> dict[field]]

dict_to_provider_data(cls, dict) == bend(get_mapping_to_provider(cls, dict), dict)

\* faulty variant: the values the fields are changed from
changes_to_provider_from_values(cls, changes) ==
    dict_to_provider_data(cls, [key \in DOMAIN changes |-> changes[key].from_value])

changes_to_provider(cls, changes) ==
    dict_to_provider_data(cls, [key \in DOMAIN changes |-> changes[key].to_value])

to_model_dict(self) ==
    LET ks == keys(self, FALSE, FALSE, FALSE, TRUE)
    IN  [key \in Range(ks) |-> getattribute(self, key)]

to_provider_data(self) == dict_to_provider_data(self.cls, to_model_dict(self))

\* OrganizationWebhook._to_provider: the config properties move under "config"
webhook_to_provider(dict) ==
    LET mapping == get_mapping_to_provider(WebhookCls, dict)
        config_props == {"url", "content_type", "insecure_ssl", "secret"}
    IN  [top |-> bend(mapping \ config_props, dict),
         config |-> bend(mapping \cap config_props, dict)]

\* faulty variant: a failed call is made once more
update_org_settings_calls_retrying(patch, org_id, outcome) ==
    LET call == [method |-> "update_org_settings", org_id |-> org_id,
                 payload |-> changes_to_provider(SettingsCls, patch.changes.d)]
    IN  IF outcome = "raises" THEN << call, call >> ELSE << call >>

\* lines 275-276: the calls apply_live_patch makes on the provider
update_org_settings_calls(patch, org_id, outcome) ==
    << [method |-> "update_org_settings", org_id |-> org_id,
        payload |-> changes_to_provider(SettingsCls, patch.changes.d)] >>

\* faulty variant: the changes that were sent are taken out of the dict of
\* the patch
ApplyLivePatch_clearing_changes ==
    /\ pc = "done"
    /\ Len(patches) > 0
    /\ patches[1].fn = apply_live_patch(SettingsCls)
    /\ patches[1].patch_type = "CHANGE"
    /\ patches[1].changes.kind = "dict"
    /\ provider_calls' = provider_calls \o
          update_org_settings_calls(patches[1], context.org_id, "returns")
    /\ patches' = [patches EXCEPT ![1].changes = Changes(<<>>)]
    /\ apply_error' = FALSE
    /\ pc' = "applied"
    /\ UNCHANGED <<expected_object, current_object, diff_result, modified_settings,
                   context, data_vars, validation_vars>>
    /\ UNCHANGED operation_vars

\* LivePatch.apply of the patch of the settings: patch.fn is
\* OrganizationSettings.apply_live_patch; the provider call returns or raises,
\* and what it raises reaches the caller
ApplyLivePatch ==
    /\ pc = "done"
    /\ Len(patches) > 0
    /\ patches[1].fn = apply_live_patch(SettingsCls)
    /\ patches[1].patch_type = "CHANGE"
    /\ patches[1].changes.kind = "dict"
    /\ \E outcome \in {"returns", "raises"} :
          /\ provider_calls' = provider_calls \o
                update_org_settings_calls(patches[1], context.org_id, outcome)
          /\ apply_error' = (outcome = "raises")
          /\ pc' = IF outcome = "raises" THEN "raised" ELSE "applied"
    /\ UNCHANGED <<expected_object, current_object, diff_result, modified_settings,
                   context, patches, data_vars, validation_vars>>
    /\ UNCHANGED operation_vars

\* a bare call cls.dict_to_provider_data(org_id, data, provider), for a
\* webhook OrganizationWebhook._to_provider(data)
DictToProviderData ==
    /\ pc = "dict_to_provider_data"
    /\ provider_data' =
          IF expected_object.cls = WebhookCls
          THEN webhook_to_provider(input_data)
          ELSE [top |-> dict_to_provider_data(expected_object.cls, input_data),
                config |-> <<>>]
    /\ pc' = "returned"
    /\ UNCHANGED <<expected_object, current_object, diff_result, modified_settings,
                   context, patches, input_data, apply_vars, validation_vars>>
    /\ UNCHANGED operation_vars

---------------------------------------------------------------------------
(* Validation.  A failure is the pair <<failure_type, message>>.           *)

\* str(value) inside an f-string
format(value) ==
    CASE value.kind = "str" -> value.s
      [] value.kind = "bool" -> IF value.b THEN "True" ELSE "False"
      [] value.kind = "none" -> "None"
      [] OTHER -> "UNSET"

is_set_and_present(value) == is_set_and_valid(value)

\* value is True / value is False
is_True(value) == value.kind = "bool" /\ value.b

is_False(value) == value.kind = "bool" /\ ~value.b

\* the parts the strings that are searched are made of
Parts == {"", "org", "repo", "owner"}

\* sub in string, for strings made of at most one sub between two parts
contains(sub, string) == \E a, b \in Parts : string = a \o sub \o b

RECURSIVE Stars(_)
Stars(n) == IF n = 0 THEN "" ELSE "*" \o Stars(n - 1)

\* all(ch == '*' for ch in string)
all_stars(string) == string = Stars(Len(string))

\* faulty variant: the failure is put in front of the list
add_failure_in_front(ctx, failure_type, message) ==
    [ctx EXCEPT !.validation_failures = << <<failure_type, message>> >> \o @]

add_failure(ctx, failure_type, message) ==
    [ctx EXCEPT !.validation_failures = Append(@, <<failure_type, message>>)]

RECURSIVE exec(_, _)
\* the script run on context: the add_failure calls it makes, in order
exec(ctx, script) ==
    IF script = <<>>
    THEN ctx
    ELSE exec(add_failure(ctx, script[1][1], script[1][2]), Tail(script))

execute_custom_validation_if_present(ctx, filename) ==
    IF filename \in DOMAIN ctx.template_dir
    THEN exec(ctx, ctx.template_dir[filename])
    ELSE ctx

MaxDescriptionLength == 160

MissingDiscussionRepository ==
    "enabling 'has_discussions' requires setting a valid repository in 'discussion_source_repository'."

\* faulty variant: an unset discussion_source_repository passes
settings_validate_unset_passes(self, ctx, parent_object) ==
    LET c0 == execute_custom_validation_if_present(ctx, "validate-org-settings.py")
    IN  IF is_True(self.v["has_discussions"])
           /\ self.v["discussion_source_repository"].kind = "none"
        THEN add_failure(c0, "ERROR", MissingDiscussionRepository)
        ELSE c0

\* OrganizationSettings.validate on settings without custom properties and
\* workflow settings
settings_validate(self, ctx, parent_object) ==
    LET description == self.v["description"]
        repository == self.v["discussion_source_repository"]
        permission == self.v["default_repository_permission"]
        c0 == execute_custom_validation_if_present(ctx, "validate-org-settings.py")
        c1 == IF is_set_and_present(description)
                 /\ Len(description.s) > MaxDescriptionLength
              THEN add_failure(c0, "ERROR",
                      "setting 'description' exceeds maximum allowed length of 160 chars.")
              ELSE c0
        c2 == IF is_True(self.v["has_discussions"]) /\ ~is_set_and_valid(repository)
              THEN add_failure(c1, "ERROR", MissingDiscussionRepository)
              ELSE c1
        c3 == IF is_set_and_present(repository) /\ ~contains("/", repository.s)
              THEN add_failure(c2, "ERROR",
                      "setting 'discussion_source_repository' requires a repository in '<owner>/<repo-name>' format.")
              ELSE c2
        c4 == IF is_set_and_valid(permission)
                 /\ permission.s \notin {"none", "read", "write", "admin"}
              THEN add_failure(c3, "ERROR",
                      "'default_repository_permission' has value '" \o permission.s
                      \o "', only values ('none' | 'read' | 'write' | 'admin') are allowed.")
              ELSE c3
    IN  c4

webhook_validate(self, ctx, parent_object) ==
    LET secret == self.v["secret"]
    IN  IF is_set_and_valid(secret) /\ all_stars(secret.s)
        THEN add_failure(ctx, "ERROR",
                "webhook with url '" \o format(self.v["url"]) \o "' uses a dummy secret '"
                \o secret.s \o "', provide a real secret using a credential provider.")
        ELSE ctx

ForkingDisabled(self) ==
    "public repo[name=\"" \o format(self.v["name"])
    \o "\"] has 'allow_forking' disabled which is not permitted."

\* faulty variant: the forking rule looks at private repositories
repository_validate_private(self, ctx, parent_object) ==
    IF is_True(self.v["private"]) /\ is_False(self.v["allow_forking"])
    THEN add_failure(ctx, "WARNING", ForkingDisabled(self))
    ELSE ctx

\* Repository.validate on a repository without branch protection rules
repository_validate(self, ctx, parent_object) ==
    LET org_settings == parent_object.n["settings"].obj
        free_plan == org_settings.v["plan"] = Str("free")
        org_web_commit_signoff_required ==
            is_True(org_settings.v["web_commit_signoff_required"])
        org_members_cannot_fork_private_repositories ==
            is_False(org_settings.v["members_can_fork_private_repositories"])
        is_private == is_True(self.v["private"])
        is_public == is_False(self.v["private"])
        allow_forking == is_True(self.v["allow_forking"])
        disallow_forking == is_False(self.v["allow_forking"])
        has_wiki == is_True(self.v["has_wiki"])
        repo_web_commit_signoff_not_required ==
            is_False(self.v["web_commit_signoff_required"])
        name == format(self.v["name"])
        c1 == IF is_public /\ disallow_forking
              THEN add_failure(ctx, "WARNING", ForkingDisabled(self))
              ELSE ctx
        c2 == IF is_private /\ has_wiki /\ free_plan
              THEN add_failure(c1, "WARNING",
                      "private repo[name=\"" \o name \o "\"] has 'has_wiki' enabled which"
                      \o "requires at least GitHub Team billing, currently using \""
                      \o format(org_settings.v["plan"]) \o "\" plan.")
              ELSE c1
        c3 == IF is_private /\ org_members_cannot_fork_private_repositories /\ allow_forking
              THEN add_failure(c2, "ERROR",
                      "private repo[name=\"" \o name \o "\"] has 'allow_forking' enabled "
                      \o "while the organization disables 'members_can_fork_private_repositories'.")
              ELSE c2
        c4 == IF repo_web_commit_signoff_not_required /\ org_web_commit_signoff_required
              THEN add_failure(c3, "ERROR",
                      "repo[name=\"" \o name \o "\"] has 'web_commit_signoff_required' disabled while "
                      \o "the organization requires it.")
              ELSE c3
    IN  c4

\* self.validate(context, parent_object), by the class of self
validate(self, ctx, parent_object) ==
    CASE self.cls = SettingsCls -> settings_validate(self, ctx, parent_object)
      [] self.cls = WebhookCls -> webhook_validate(self, ctx, parent_object)
      [] self.cls = RepositoryCls -> repository_validate(self, ctx, parent_object)

Validate ==
    /\ pc = "validate"
    /\ validation_context' = validate(expected_object, validation_context, validation_parent)
    /\ pc' = "validated"
    /\ UNCHANGED <<expected_object, current_object, diff_result, modified_settings,
                   context, patches, apply_vars, data_vars, validation_parent>>
    /\ UNCHANGED operation_vars

---------------------------------------------------------------------------
(* Construction of an entity from a document.  A document is [v, n]: v     *)
(* maps the plain fields it holds to their values, n maps the nested       *)
(* fields it holds to [kind, doc, docs] (null, one document, a list).      *)

EmptyDocument == [v |-> <<>>, n |-> <<>>]

DocumentNone == [kind |-> "none", doc |-> EmptyDocument, docs |-> <<>>]

DocumentObject(document) == [kind |-> "doc", doc |-> document, docs |-> <<>>]

DocumentList(documents) == [kind |-> "list", doc |-> EmptyDocument, docs |-> documents]

\* the bender OptionalS(key, default=default) applied to dict
OptionalS(dict, key, default) == IF key \in DOMAIN dict THEN dict[key] ELSE default

\* the fields of cls that are declared with a default_factory of list
has_default_factory(cls, field) ==
    \/ cls = SettingsCls /\ field = "custom_properties"
    \/ cls = RepositoryCls /\ field = "branch_protection_rules"

\* ModelObject.__post_init__: an unset field takes its default, if it has one
post_init(self) ==
    [self EXCEPT !.n =
        [field \in DOMAIN self.n |->
            IF self.n[field].kind = "unset" /\ has_default_factory(self.cls, field)
            THEN NestedList(<<>>)
            ELSE self.n[field]]]

RECURSIVE from_model_data(_, _)
\* cls.from_model_data(data): cls(**bend(mapping, data))
from_model_data(cls, data) ==
    LET fields == Range(all_fields(cls))
        custom_properties ==
            LET documents == OptionalS(data.n, "custom_properties", DocumentList(<<>>)).docs
            IN  NestedList([i \in 1..Len(documents) |->
                               from_model_data(PropertyCls, documents[i])])
        workflows ==
            LET document == OptionalS(data.n, "workflows", DocumentNone)
            IN  IF document.kind = "none"
                THEN NestedUnset
                ELSE NestedObject(from_model_data(WorkflowCls, document.doc))
    IN  post_init(
           [cls |-> cls,
            v |-> [k \in {f \in fields : ~is_nested_model(cls, f)} |->
                      OptionalS(data.v, k, UNSET)],
            n |-> [k \in {f \in fields : is_nested_model(cls, f)} |->
                      CASE cls = SettingsCls /\ k = "custom_properties" -> custom_properties
                        [] cls = SettingsCls /\ k = "workflows" -> workflows
                        [] OTHER -> NestedUnset]])

FromModelData ==
    /\ pc = "from_model_data"
    /\ expected_object' = from_model_data(SettingsCls, input_data)
    /\ pc' = "constructed"
    /\ UNCHANGED <<current_object, diff_result, modified_settings, context, patches,
                   apply_vars, data_vars, validation_vars>>
    /\ UNCHANGED operation_vars

\* OrganizationWebhook.from_model(data): the mapping holds the declared fields
FromModel ==
    /\ pc = "from_model"
    /\ expected_object' = from_model_data(WebhookCls, input_data)
    /\ pc' = "constructed"
    /\ UNCHANGED <<current_object, diff_result, modified_settings, context, patches,
                   apply_vars, data_vars, validation_vars>>
    /\ UNCHANGED operation_vars

---------------------------------------------------------------------------
(* Passes of several organizations.  A dict is an object of the heap and   *)
(* is held by reference: a reference is its index in heap.                  *)

\* the heap with one more dict, and the reference to that dict
Allocate(h, d) == [heap |-> Append(h, d), ref |-> Len(h) + 1]

\* faulty variant: one dict made once is the default of every context
shared_default_dict(h) ==
    IF h = <<>> THEN Allocate(h, <<>>) ELSE [heap |-> h, ref |-> 1]

\* default_factory=dict: every context gets a dict of its own
default_factory_dict(h) == Allocate(h, <<>>)

\* LivePatchContext(org_id, ...), modified_org_settings taking its default
LivePatchContext(org_id, ref) == [org_id |-> org_id, modified_org_settings |-> ref]

\* the context of the pass of an organization is made
CreateContext(org) ==
    /\ passes[org].pc = "start"
    /\ LET made == default_factory_dict(heap)
       IN  /\ heap' = made.heap
           /\ passes' = [passes EXCEPT ![org].context = LivePatchContext(org, made.ref),
                                        ![org].pc = "generate_live_patch"]

\* lines 236-246: the dict get_difference_from returns, the disallowed change
\* popped from it
PassComputeModifiedSettings(org) ==
    /\ passes[org].pc = "generate_live_patch"
    /\ LET made == Allocate(heap,
                       drop_disallowed_changes(
                           get_difference_from(passes[org].expected_object,
                                               passes[org].current_object)))
       IN  /\ heap' = made.heap
           /\ passes' = [passes EXCEPT ![org].modified_settings = made.ref,
                                        ![org].pc = "emit"]

\* lines 248-255: the patch handed to the handler and the context both get
\* the reference to the dict of the changes
PassEmitSettingsChange(org) ==
    /\ passes[org].pc = "emit"
    /\ passes' =
          [passes EXCEPT
              ![org].patches =
                  IF DictLen(heap[passes[org].modified_settings]) > 0
                  THEN Append(@, passes[org].modified_settings)
                  ELSE @,
              ![org].context.modified_org_settings = passes[org].modified_settings,
              ![org].pc = "done"]
    /\ UNCHANGED heap

\* a step of the pass of one of the organizations
PassStep ==
    /\ \E org \in DOMAIN passes :
          \/ CreateContext(org)
          \/ PassComputeModifiedSettings(org)
          \/ PassEmitSettingsChange(org)
    /\ UNCHANGED <<expected_object, current_object, pc, diff_result, modified_settings,
                   context, patches, apply_vars, data_vars, validation_vars>>
    /\ UNCHANGED <<files, operation, task>>

---------------------------------------------------------------------------
(* CheckConfigurationInSyncTask.  task holds the fields of the task, what  *)
(* its surroundings will answer (response_valid, plan, raising) and the    *)
(* result or exception of _execute.                                        *)

NoResult == [kind |-> "none", b |-> FALSE]

ResultOf(b) == [kind |-> "bool", b |-> b]

AnException == [kind |-> "exception", b |-> FALSE]

create_commit_status(state) == [method |-> "create_commit_status", argument |-> state]

create_comment(template) == [method |-> "create_comment", argument |-> template]

get_pull_request == [method |-> "get_pull_request", argument |-> ""]

\* sync_callback of _execute: what config_in_sync is after the plan operation
\* has run; the callback is only run when the plan reports a diff status
config_in_sync_after(plan) ==
    IF plan.reported THEN plan.total_changes = 0 ELSE TRUE

PreExecute ==
    /\ pc = "pre_execute"
    /\ IF task.pull_request_or_number = "int"
       THEN IF task.response_valid
            THEN /\ task' = [task EXCEPT !.pull_request = "set"]
                 /\ provider_calls' =
                       provider_calls \o << get_pull_request, create_commit_status("pending") >>
            ELSE \* ValidationError: logged, then return
                 /\ task' = task
                 /\ provider_calls' = Append(provider_calls, get_pull_request)
       ELSE /\ task' = [task EXCEPT !.pull_request = "set"]
            /\ provider_calls' = Append(provider_calls, create_commit_status("pending"))
    /\ pc' = "execute"
    /\ UNCHANGED <<expected_object, current_object, diff_result, modified_settings,
                   context, patches, apply_error, data_vars, validation_vars>>
    /\ UNCHANGED <<passes, heap, files, operation>>

Execute ==
    /\ pc = "execute"
    /\ IF \/ task.pull_request = "unset"     \* self.pull_request: AttributeError
          \/ task.raising = "fetch_config"
          \/ task.plan.raises
       THEN /\ task' = [task EXCEPT !.result = AnException]
            /\ UNCHANGED provider_calls
       ELSE LET config_in_sync == config_in_sync_after(task.plan)
            IN  IF task.raising = "create_comment"
                THEN /\ task' = [task EXCEPT !.result = AnException]
                     /\ UNCHANGED provider_calls
                ELSE /\ task' = [task EXCEPT !.result = ResultOf(config_in_sync)]
                     /\ provider_calls' =
                           Append(provider_calls,
                                  create_comment(IF config_in_sync
                                                 THEN "comment/in_sync_comment.txt"
                                                 ELSE "comment/out_of_sync_comment.txt"))
    /\ pc' = "post_execute"
    /\ UNCHANGED <<expected_object, current_object, diff_result, modified_settings,
                   context, patches, apply_error, data_vars, validation_vars>>
    /\ UNCHANGED <<passes, heap, files, operation>>

PostExecute ==
    /\ pc = "post_execute"
    /\ IF task.pull_request = "unset"
       THEN \* self.pull_request.head.sha: AttributeError
            /\ pc' = "raised"
            /\ UNCHANGED provider_calls
       ELSE /\ pc' = "finished"
            /\ provider_calls' =
                  Append(provider_calls,
                         create_commit_status(
                             IF task.result.kind = "exception" THEN "failure"
                             ELSE IF task.result.b THEN "success" ELSE "error"))
    /\ UNCHANGED <<expected_object, current_object, diff_result, modified_settings,
                   context, patches, apply_error, data_vars, validation_vars>>
    /\ UNCHANGED operation_vars

---------------------------------------------------------------------------
(* ImportOperation.execute.  operation holds the fields of the operation,  *)
(* what its surroundings will answer (approval, credentials_ok,            *)
(* provider_raises), the locals of execute and what execute returned.      *)

NotReturned == [kind |-> "none", code |-> 0]

Returned(code) == [kind |-> "return", code |-> code]

Raised == [kind |-> "exception", code |-> 0]

\* jsonnet_config.org_config_file
org_file_name == "org.jsonnet"

backup_file == org_file_name \o ".bak"

exists(file) == file \in DOMAIN files

\* the files with content written to file
WriteFile(file, content) ==
    [f \in DOMAIN files \cup {file} |-> IF f = file THEN content ELSE files[f]]

load_from_provider == [method |-> "load_from_provider", argument |-> ""]

\* faulty variant: the import goes on whatever the user answers
ImportConfirm_unconditional ==
    /\ pc = "import"
    /\ operation' = [operation EXCEPT !.prompts = @ + 1]
    /\ pc' = "backup"
    /\ UNCHANGED <<files, provider_calls>>

\* lines 56-65: the prompt when the definition exists and is not forced
ImportConfirm ==
    /\ pc = "import"
    /\ IF exists(org_file_name) /\ ~operation.force_processing
       THEN IF ~operation.approval
            THEN /\ operation' = [operation EXCEPT !.prompts = @ + 1,
                                                   !.result = Returned(1)]
                 /\ pc' = "returned"
            ELSE /\ operation' = [operation EXCEPT !.prompts = @ + 1]
                 /\ pc' = "backup"
       ELSE /\ operation' = operation
            /\ pc' = "backup"
    /\ UNCHANGED <<files, provider_calls>>

\* faulty variant: the existing definition is not copied
ImportBackup_without_copy ==
    /\ pc = "backup"
    /\ operation' = [operation EXCEPT !.sync_from_previous_config = exists(org_file_name)]
    /\ pc' = "load"
    /\ UNCHANGED <<files, provider_calls>>

\* lines 67-73: the copy of the existing definition
ImportBackup ==
    /\ pc = "backup"
    /\ IF exists(org_file_name)
       THEN /\ operation' = [operation EXCEPT !.sync_from_previous_config = TRUE]
            /\ files' = WriteFile(backup_file, files[org_file_name])
       ELSE /\ operation' = [operation EXCEPT !.sync_from_previous_config = FALSE]
            /\ UNCHANGED files
    /\ pc' = "load"
    /\ UNCHANGED provider_calls

\* lines 78-93: the credentials and the query of the provider
ImportLoad ==
    /\ pc = "load"
    /\ IF ~operation.credentials_ok
       THEN /\ operation' = [operation EXCEPT !.result = Returned(1)]
            /\ pc' = "returned"
            /\ UNCHANGED provider_calls
       ELSE /\ provider_calls' = Append(provider_calls, load_from_provider)
            /\ IF operation.provider_raises
               THEN /\ operation' = [operation EXCEPT !.result = Raised]
                    /\ pc' = "raised"
               ELSE /\ operation' = operation
                    /\ pc' = "write"
    /\ UNCHANGED files

\* lines 95-129: the definition of the live organization is written
ImportWrite ==
    /\ pc = "write"
    /\ files' = WriteFile(org_file_name, "imported")
    /\ operation' = [operation EXCEPT !.result = Returned(0)]
    /\ pc' = "returned"
    /\ UNCHANGED provider_calls

\* a step of ImportOperation.execute
ImportStep ==
    /\ \/ ImportConfirm
       \/ ImportBackup
       \/ ImportLoad
       \/ ImportWrite
    /\ UNCHANGED <<expected_object, current_object, diff_result, modified_settings,
                   context, patches, apply_error, data_vars, validation_vars>>
    /\ UNCHANGED <<passes, heap, task>>

---------------------------------------------------------------------------
(* PushOperation.execute.  operation holds the fields of the operation,    *)
(* what its surroundings will answer (approval, credentials_ok,            *)
(* current_definition, valid_config, raising), the locals of execute and   *)
(* what _display_diff and execute returned.                                *)

get_repo_data == [method |-> "get_repo_data", argument |-> ""]

get_content == [method |-> "get_content", argument |-> ""]

update_content(content) == [method |-> "update_content", argument |-> content]

\* org_config.jsonnet_config.org_config_file + "-BASE"
current_config_file == org_file_name \o "-BASE"

\* filecmp.cmp of two files that exist
filecmp(f1, f2) == files[f1] = files[f2]

\* lines 54-58: without the local definition nothing is done
PushCheckFile ==
    /\ pc = "push"
    /\ IF ~exists(org_file_name)
       THEN /\ operation' = [operation EXCEPT !.result = Returned(1)]
            /\ pc' = "returned"
       ELSE /\ operation' = operation
            /\ pc' = "credentials"
    /\ UNCHANGED <<files, provider_calls>>

\* lines 63-93: the credentials, the author and the content of the definition
PushCredentials ==
    /\ pc = "credentials"
    /\ IF ~operation.credentials_ok
       THEN /\ operation' = [operation EXCEPT !.result = Returned(1)]
            /\ pc' = "returned"
       ELSE /\ operation' = [operation EXCEPT !.content = files[org_file_name]]
            /\ pc' = IF operation.show_diff THEN "display_diff" ELSE "update"
    /\ UNCHANGED <<files, provider_calls>>

\* lines 100-101 and _display_diff; a RuntimeError of the provider is caught
\* at line 116
PushDisplayDiff ==
    /\ pc = "display_diff"
    /\ IF operation.raising = "get_content"
       THEN /\ provider_calls' = provider_calls \o << get_repo_data, get_content >>
            /\ operation' = [operation EXCEPT !.result = Returned(1)]
            /\ pc' = "returned"
            /\ UNCHANGED files
       ELSE /\ provider_calls' = provider_calls \o << get_repo_data, get_content >>
            /\ files' = WriteFile(current_config_file, operation.current_definition)
            /\ LET same == filecmp(current_config_file, org_file_name)'
                   returns ==
                       IF same THEN FALSE
                       ELSE IF operation.valid_config # 0 THEN FALSE
                       ELSE IF ~operation.approval THEN FALSE
                       ELSE TRUE
               IN  operation' =
                       [operation EXCEPT
                           !.display_diff = ResultOf(returns),
                           !.perform_update = returns,
                           !.prompts = IF ~same /\ operation.valid_config = 0
                                       THEN @ + 1 ELSE @]
            /\ pc' = "update"

\* faulty variant: the definition is pushed whatever _display_diff returned
PushUpdate_unconditional ==
    /\ pc = "update"
    /\ provider_calls' = Append(provider_calls, update_content(operation.content))
    /\ operation' = [operation EXCEPT !.result = Returned(0)]
    /\ pc' = "returned"
    /\ UNCHANGED files

\* lines 103-131: the push of the definition
PushUpdate ==
    /\ pc = "update"
    /\ IF operation.perform_update
       THEN /\ provider_calls' = Append(provider_calls, update_content(operation.content))
            /\ operation' =
                  [operation EXCEPT
                      !.result = IF operation.raising = "update_content"
                                 THEN Returned(1) ELSE Returned(0)]
       ELSE /\ operation' = [operation EXCEPT !.result = Returned(0)]
            /\ UNCHANGED provider_calls
    /\ pc' = "returned"
    /\ UNCHANGED files

\* a step of PushOperation.execute
PushStep ==
    /\ \/ PushCheckFile
       \/ PushCredentials
       \/ PushDisplayDiff
       \/ PushUpdate
    /\ UNCHANGED <<expected_object, current_object, diff_result, modified_settings,
                   context, patches, apply_error, data_vars, validation_vars>>
    /\ UNCHANGED <<passes, heap, task>>

---------------------------------------------------------------------------
(* _execute_operation.  operation holds the arguments (organizations), the *)
(* configuration (organization_names), what the operation will answer      *)
(* (codes, raising), the locals (exit_code, remaining), the calls made so  *)
(* far and how the process ended.                                          *)

OperationCall(method, argument) == [method |-> method, argument |-> argument]

\* no call raises
NoRaise == [method |-> "none", at |-> 0]

\* the call of the method raises; at is the position of the organization in
\* the list, 0 for the calls made once
RaiseAt(method, at) == [method |-> method, at |-> at]

Running == [kind |-> "none", code |-> 0]

\* sys.exit(code)
sys_exit(code) == [kind |-> "exit", code |-> code]

\* faulty variant: the exit code of the last organization
last(a, b) == b

\* max of two exit codes
max(a, b) == IF a >= b THEN a ELSE b

\* lines 716-721: an exception of a step ends the process with code 2
except_Exception(op, call) ==
    [op EXCEPT !.calls = Append(@, call), !.exit = sys_exit(2)]

\* line 701
OperationInit ==
    /\ pc = "init"
    /\ LET call == OperationCall("init", "")
       IN  IF operation.raising = RaiseAt("init", 0)
           THEN /\ operation' = except_Exception(operation, call)
                /\ pc' = "exited"
           ELSE /\ operation' = [operation EXCEPT !.calls = Append(@, call),
                                                  !.exit_code = 0]
                /\ pc' = "pre_execute"

\* lines 702-707
OperationPreExecute ==
    /\ pc = "pre_execute"
    /\ LET call == OperationCall("pre_execute", "")
       IN  IF operation.raising = RaiseAt("pre_execute", 0)
           THEN /\ operation' = except_Exception(operation, call)
                /\ pc' = "exited"
           ELSE /\ operation' =
                     [operation EXCEPT
                         !.calls = Append(@, call),
                         !.remaining = IF Len(operation.organizations) = 0
                                       THEN operation.organization_names
                                       ELSE operation.organizations]
                /\ pc' = "for"

\* lines 709-711: one turn of the loop
OperationExecute ==
    /\ pc = "for"
    /\ operation.remaining # <<>>
    /\ LET organization == Head(operation.remaining)
           at == operation.processed + 1
           config_call == OperationCall("get_organization_config", organization)
           execute_call == OperationCall("execute", organization)
       IN  IF operation.raising = RaiseAt("get_organization_config", at)
           THEN /\ operation' = except_Exception(operation, config_call)
                /\ pc' = "exited"
           ELSE IF operation.raising = RaiseAt("execute", at)
           THEN /\ operation' =
                     except_Exception([operation EXCEPT !.calls = Append(@, config_call)],
                                      execute_call)
                /\ pc' = "exited"
           ELSE /\ operation' =
                     [operation EXCEPT
                         !.calls = @ \o << config_call, execute_call >>,
                         !.exit_code = max(@, operation.codes[organization]),
                         !.processed = at,
                         !.remaining = Tail(@)]
                /\ pc' = "for"

\* lines 713-714
OperationPostExecute ==
    /\ pc = "for"
    /\ operation.remaining = <<>>
    /\ LET call == OperationCall("post_execute", "")
       IN  IF operation.raising = RaiseAt("post_execute", 0)
           THEN operation' = except_Exception(operation, call)
           ELSE operation' = [operation EXCEPT !.calls = Append(@, call),
                                               !.exit = sys_exit(operation.exit_code)]
    /\ pc' = "exited"

\* a step of _execute_operation
OperationStep ==
    /\ \/ OperationInit
       \/ OperationPreExecute
       \/ OperationExecute
       \/ OperationPostExecute
    /\ UNCHANGED <<expected_object, current_object, diff_result, modified_settings,
                   context, patches, apply_vars, data_vars, validation_vars>>
    /\ UNCHANGED <<passes, heap, files, task>>

---------------------------------------------------------------------------
(* Inputs.                                                                 *)

\* longest custom_properties list of a full reconciliation pass
MaxNested == 1

\* longest list handed to the list reconciliation on its own
MaxProperties == 2

BoolOrUnset == {UNSET, Bool(TRUE), Bool(FALSE)}

PlanValues == {UNSET, Str("free"), Str("team")}

RepositoryValues == {UNSET, None, Str("org/repo")}

SecurityManagerValues ==
    {UNSET, List(<<"a", "b">>), List(<<"b", "a">>), List(<<"a">>)}

WorkflowValues ==
    {NestedObject(OrganizationWorkflowSettings(Str(r))) : r \in {"all", "selected"}}

\* lists of custom properties with pairwise distinct names (the identity
\* key addresses an entity uniquely among its siblings)
PropertyLists(names, maxlen) ==
    LET props == {CustomProperty(Str(name), required) :
                     name \in names, required \in {Bool(TRUE), Bool(FALSE)}}
    IN  UNION {{q \in [1..k -> props] :
                   \A i, j \in 1..k : i # j => q[i].v.name # q[j].v.name} :
               k \in 0..maxlen}

NestedLists(names, maxlen) == {NestedList(q) : q \in PropertyLists(names, maxlen)}

AllSettings(workflows, custom_properties) ==
    {OrganizationSettings(p, h, d, f, s, w, c) :
        p \in PlanValues, h \in BoolOrUnset, d \in RepositoryValues,
        f \in BoolOrUnset, s \in SecurityManagerValues,
        w \in workflows, c \in custom_properties}

AllWebhooks ==
    {OrganizationWebhook(i, a, u, s) :
        i \in {UNSET, Str("1"), Str("2")}, a \in BoolOrUnset,
        u \in {Str("https://a"), Str("https://b")},
        s \in {UNSET, Str("s1"), Str("s2")}}

NewContext == [org_id |-> "org", modified_org_settings |-> <<>>]

\* ValidationContext(template_dir): custom_rules stands for the validation
\* scripts found in template_dir
\* template_dir maps the name of each script it holds to the failures that
\* script adds to the context
NewValidationContext(template_dir) ==
    [template_dir |-> template_dir, validation_failures |-> <<>>]

\* nothing is run but the pass or call of the specification
InitOperations ==
    /\ passes = <<>>
    /\ heap = <<>>
    /\ files = <<>>
    /\ operation = <<>>
    /\ task = <<>>

InitLocals ==
    /\ InitOperations
    /\ diff_result = <<>>
    /\ modified_settings = <<>>
    /\ context = NewContext
    /\ patches = <<>>
    /\ provider_calls = <<>>
    /\ apply_error = FALSE
    /\ input_data = <<>>
    /\ provider_data = <<>>
    /\ validation_context = NewValidationContext(<<>>)
    /\ validation_parent = NoneObject

\* a pass over settings whose plan and one-way flag vary, with nested children
Init ==
    /\ pc = "generate_live_patch"
    /\ expected_object \in
          {OrganizationSettings(p, Bool(FALSE), None, f, UNSET, w, c) :
              p \in {UNSET, Str("free")}, f \in BoolOrUnset,
              w \in WorkflowValues \cup {NestedUnset},
              c \in NestedLists({"p1", "p2"}, MaxNested)}
    /\ current_object \in
          {OrganizationSettings(p, Bool(FALSE), None, f, UNSET, w, c) :
              p \in {Str("free"), Str("team")}, f \in {Bool(TRUE), Bool(FALSE)},
              w \in WorkflowValues,
              c \in NestedLists({"p1", "p2"}, MaxNested)}
    /\ InitLocals

Next ==
    \/ ComputeModifiedSettings
    \/ EmitSettingsChange
    \/ ReconcileCustomProperties
    \/ ReconcileWorkflows

Spec == Init /\ [][Next]_vars

\* a pass that reconciles an entity against itself
InitSame ==
    /\ pc = "generate_live_patch"
    /\ expected_object \in AllSettings(WorkflowValues \cup {NestedUnset},
                                       NestedLists({"p1", "p2"}, MaxNested))
    /\ current_object = expected_object
    /\ InitLocals

SpecSame == InitSame /\ [][Next]_vars

\* a pass over settings that differ in their custom properties only
InitList ==
    /\ pc = "generate_live_patch"
    /\ \E e, c \in NestedLists({"p1", "p2", "p3"}, MaxProperties) :
          /\ expected_object = OrganizationSettings(Str("free"), Bool(FALSE), None,
                                  Bool(FALSE), UNSET, NestedUnset, e)
          /\ current_object = OrganizationSettings(Str("free"), Bool(FALSE), None,
                                  Bool(FALSE), UNSET, NestedUnset, c)
    /\ InitLocals

SpecList == InitList /\ [][Next]_vars

\* a pass over settings that differ in their plain fields only, followed by
\* the application of its patch
InitApply ==
    /\ pc = "generate_live_patch"
    /\ expected_object \in AllSettings({NestedUnset}, {NestedList(<<>>)})
    /\ current_object \in
          {OrganizationSettings(p, h, d, f, s, NestedUnset, NestedList(<<>>)) :
              p \in {Str("free"), Str("team")}, h \in {Bool(TRUE), Bool(FALSE)},
              d \in {None, Str("org/repo")}, f \in {Bool(TRUE), Bool(FALSE)},
              s \in {List(<<"a", "b">>), List(<<"a">>)}}
    /\ InitLocals

NextApply == Next \/ ApplyLivePatch

SpecApply == InitApply /\ [][NextApply]_vars

\* a pass over settings with nested children, followed by the application of
\* the patch of the settings
SpecLifecycle == Init /\ [][NextApply]_vars

\* all attributes of an entity, as a dict
AttributeDict(self) == [field \in Range(all_fields(self.cls)) |-> getattribute(self, field)]

\* bare calls of dict_to_provider_data on the model dict of an entity (as
\* to_provider_data does) and on the dict of all its attributes
InitPayload ==
    /\ pc = "dict_to_provider_data"
    /\ expected_object \in
          AllSettings(WorkflowValues \cup {NestedUnset},
                      NestedLists({"p1", "p2"}, MaxNested)) \cup AllWebhooks
    /\ current_object = NoneObject
    /\ diff_result = <<>>
    /\ modified_settings = <<>>
    /\ context = NewContext
    /\ patches = <<>>
    /\ provider_calls = <<>>
    /\ apply_error = FALSE
    /\ input_data \in {to_model_dict(expected_object), AttributeDict(expected_object)}
    /\ provider_data = <<>>
    /\ validation_context = NewValidationContext(<<>>)
    /\ validation_parent = NoneObject
    /\ InitOperations

NextPayload == DictToProviderData

SpecPayload == InitPayload /\ [][NextPayload]_vars

LongDescription ==
    LET ten == "0123456789"
        forty == ten \o ten \o ten \o ten
    IN  forty \o forty \o forty \o forty \o "0"

\* settings as validate reads them, without custom properties and workflows
ValidatedSettings ==
    {WithAttributes(
        OrganizationSettings(p, h, d, UNSET, UNSET, NestedUnset, NestedList(<<>>)),
        [description |-> t, default_repository_permission |-> r,
         web_commit_signoff_required |-> w,
         members_can_fork_private_repositories |-> m]) :
        p \in {Str("free"), Str("team")}, h \in BoolOrUnset,
        d \in {UNSET, None, Str("org/repo"), Str("repo")},
        t \in {UNSET, Str("short"), Str(LongDescription)},
        r \in {UNSET, Str("read"), Str("owner")},
        w \in {Bool(TRUE)}, m \in {Bool(FALSE)}}

\* the settings of the organization as Repository.validate reads them
ParentSettings ==
    {WithAttributes(
        OrganizationSettings(p, UNSET, UNSET, UNSET, UNSET, NestedUnset, NestedList(<<>>)),
        [description |-> UNSET, default_repository_permission |-> UNSET,
         web_commit_signoff_required |-> w,
         members_can_fork_private_repositories |-> m]) :
        p \in {Str("free"), Str("team")}, w \in BoolOrUnset, m \in BoolOrUnset}

ValidatedWebhooks ==
    {OrganizationWebhook(UNSET, Bool(TRUE), u, s) :
        u \in {Str("https://a"), Str("https://b")},
        s \in {UNSET, None, Str("s1"), Str("********"), Str("*s"), Str("")}}

ValidatedRepositories ==
    {Repository(Str("repo"), p, w, f, s, NestedList(<<>>)) :
        p \in BoolOrUnset, w \in BoolOrUnset, f \in BoolOrUnset, s \in BoolOrUnset}

\* the scripts of the template directory
TemplateDirs ==
    {<<>>, [x \in {"validate-org-settings.py"} |-> << <<"INFO", "custom rule">> >>]}

\* the failures of the entities validated before
EarlierFailures == {<<>>, << <<"WARNING", "earlier failure">> >>}

\* one call of validate on an entity of an organization, with the context of
\* the validation of that organization
InitValidate ==
    /\ pc = "validate"
    /\ \E settings \in ParentSettings :
          /\ validation_parent = GitHubOrganization(settings)
          /\ expected_object \in ValidatedRepositories \cup ValidatedWebhooks
       \/ /\ expected_object \in ValidatedSettings
          /\ validation_parent = GitHubOrganization(expected_object)
    /\ \E template_dir \in TemplateDirs, failures \in EarlierFailures :
          validation_context =
              [NewValidationContext(template_dir) EXCEPT !.validation_failures = failures]
    /\ current_object = NoneObject
    /\ diff_result = <<>>
    /\ modified_settings = <<>>
    /\ context = NewContext
    /\ patches = <<>>
    /\ provider_calls = <<>>
    /\ apply_error = FALSE
    /\ input_data = <<>>
    /\ provider_data = <<>>
    /\ InitOperations

NextValidate == Validate

SpecValidate == InitValidate /\ [][NextValidate]_vars

\* the dicts that hold some of the keys of dict
SubDicts(dict) == {[k \in held |-> dict[k]] : held \in SUBSET DOMAIN dict}

PropertyDocuments ==
    {[v |-> d, n |-> <<>>] :
        d \in {[name |-> Str("p1"), required |-> Bool(TRUE)], [name |-> Str("p2")]}}

WorkflowDocuments ==
    {[v |-> d, n |-> <<>>] : d \in SubDicts([enabled_repositories |-> Str("all")])}

RECURSIVE DocumentLists(_)
DocumentLists(maxlen) ==
    IF maxlen = 0
    THEN {<<>>}
    ELSE LET shorter == DocumentLists(maxlen - 1)
         IN  shorter \cup {Append(l, d) : l \in shorter, d \in PropertyDocuments}

\* documents of organization settings holding some of the fields
SettingsDocuments ==
    {[v |-> d, n |-> c] :
        d \in UNION {SubDicts([plan |-> Str("free"),
                               has_discussions |-> Bool(h),
                               discussion_source_repository |-> r,
                               default_code_security_configurations_disabled |-> Bool(TRUE),
                               security_managers |-> List(<<>>)]) :
                        h \in BOOLEAN, r \in {None, Str("org/repo")}},
        c \in UNION {SubDicts([workflows |-> w, custom_properties |-> DocumentList(l)]) :
                        w \in {DocumentNone} \cup {DocumentObject(x) : x \in WorkflowDocuments},
                        l \in DocumentLists(MaxNested)}}

\* bare calls of OrganizationSettings.from_model_data on a document
InitModelData ==
    /\ pc = "from_model_data"
    /\ input_data \in SettingsDocuments
    /\ expected_object = NoneObject
    /\ current_object = NoneObject
    /\ diff_result = <<>>
    /\ modified_settings = <<>>
    /\ context = NewContext
    /\ patches = <<>>
    /\ provider_calls = <<>>
    /\ apply_error = FALSE
    /\ provider_data = <<>>
    /\ validation_context = NewValidationContext(<<>>)
    /\ validation_parent = NoneObject
    /\ InitOperations

NextModelData == FromModelData

SpecModelData == InitModelData /\ [][NextModelData]_vars

\* a document with a key that is no field of the entity type
WithUnknownField(document) ==
    [document EXCEPT !.v = [unknown_field |-> Str("x")] @@ @]

WebhookDocuments ==
    {[v |-> d, n |-> <<>>] :
        d \in UNION {SubDicts([id |-> Str("1"), active |-> Bool(a),
                               url |-> Str("https://a"), secret |-> s]) :
                        a \in BOOLEAN, s \in {None, Str("s1")}}}

\* bare calls of from_model_data and from_model on documents, some of which
\* hold a key that is no field of the entity type
InitDocument ==
    /\ \/ /\ pc = "from_model_data"
          /\ input_data \in
                SettingsDocuments \cup {WithUnknownField(d) : d \in SettingsDocuments}
       \/ /\ pc = "from_model"
          /\ input_data \in
                WebhookDocuments \cup {WithUnknownField(d) : d \in WebhookDocuments}
    /\ expected_object = NoneObject
    /\ current_object = NoneObject
    /\ diff_result = <<>>
    /\ modified_settings = <<>>
    /\ context = NewContext
    /\ patches = <<>>
    /\ provider_calls = <<>>
    /\ apply_error = FALSE
    /\ provider_data = <<>>
    /\ validation_context = NewValidationContext(<<>>)
    /\ validation_parent = NoneObject
    /\ InitOperations

NextDocument == FromModelData \/ FromModel

SpecDocument == InitDocument /\ [][NextDocument]_vars

\* no single pass or call is run
InitNoPass ==
    /\ expected_object = NoneObject
    /\ current_object = NoneObject
    /\ diff_result = <<>>
    /\ modified_settings = <<>>
    /\ context = NewContext
    /\ patches = <<>>
    /\ input_data = <<>>
    /\ provider_data = <<>>
    /\ validation_context = NewValidationContext(<<>>)
    /\ validation_parent = NoneObject

Organizations == {"org1", "org2"}

\* the state of a pass before its context is made
NewPass(expected, current) ==
    [pc |-> "start", expected_object |-> expected, current_object |-> current,
     modified_settings |-> 0, context |-> LivePatchContext("", 0), patches |-> <<>>]

\* the passes of two organizations, their steps interleaved
InitPasses ==
    /\ passes \in
          [Organizations ->
              {NewPass(OrganizationSettings(Str("free"), Bool(FALSE), None, e, UNSET,
                                            NestedUnset, NestedList(<<>>)),
                       OrganizationSettings(p, Bool(FALSE), None, f, UNSET,
                                            NestedUnset, NestedList(<<>>))) :
                  e \in BoolOrUnset, p \in {Str("free"), Str("team")},
                  f \in {Bool(TRUE), Bool(FALSE)}}]
    /\ heap = <<>>
    /\ files = <<>>
    /\ operation = <<>>
    /\ task = <<>>
    /\ pc = "passes"
    /\ provider_calls = <<>>
    /\ apply_error = FALSE
    /\ InitNoPass

NextPasses == PassStep

SpecPasses == InitPasses /\ [][NextPasses]_vars

MaxChanges == 2

\* what the plan operation can do: report a diff status to the callback, or
\* end without reporting one, with an exit code either way, or raise
PlanOutcomes ==
    {[reported |-> TRUE, total_changes |-> n, exit_code |-> 0, raises |-> FALSE] :
        n \in 0..MaxChanges}
    \cup {[reported |-> FALSE, total_changes |-> 0, exit_code |-> 1, raises |-> r] :
            r \in BOOLEAN}

\* one run of a CheckConfigurationInSyncTask
InitCheckSync ==
    /\ pc = "pre_execute"
    /\ task \in
          [pull_request_or_number : {"int", "PullRequest"},
           response_valid : BOOLEAN,
           plan : PlanOutcomes,
           raising : {"none", "fetch_config", "create_comment"},
           pull_request : {"unset"},
           result : {NoResult}]
    /\ provider_calls = <<>>
    /\ apply_error = FALSE
    /\ passes = <<>>
    /\ heap = <<>>
    /\ files = <<>>
    /\ operation = <<>>
    /\ InitNoPass

NextCheckSync == PreExecute \/ Execute \/ PostExecute

SpecCheckSync == InitCheckSync /\ [][NextCheckSync]_vars

\* the files before an operation: the definition and its backup, each absent
\* or with some content
FilesBefore(names, contents) ==
    UNION {[held -> contents] : held \in SUBSET names}

\* one run of ImportOperation.execute for an organization
InitImport ==
    /\ pc = "import"
    /\ files \in FilesBefore({org_file_name, backup_file}, {"old", "older"})
    /\ operation \in
          [force_processing : BOOLEAN,
           approval : BOOLEAN,
           credentials_ok : BOOLEAN,
           provider_raises : BOOLEAN,
           prompts : {0},
           sync_from_previous_config : {FALSE},
           result : {NotReturned}]
    /\ provider_calls = <<>>
    /\ apply_error = FALSE
    /\ passes = <<>>
    /\ heap = <<>>
    /\ task = <<>>
    /\ InitNoPass

NextImport == ImportStep

SpecImport == InitImport /\ [][NextImport]_vars

\* one run of PushOperation.execute for an organization
InitPush ==
    /\ pc = "push"
    /\ files \in FilesBefore({org_file_name}, {"old", "older"})
    /\ operation \in
          [show_diff : BOOLEAN,
           approval : BOOLEAN,
           credentials_ok : BOOLEAN,
           current_definition : {"old", "older"},
           valid_config : {0, 1},
           raising : {"none", "get_content", "update_content"},
           content : {""},
           perform_update : {TRUE},
           display_diff : {NoResult},
           prompts : {0},
           result : {NotReturned}]
    /\ provider_calls = <<>>
    /\ apply_error = FALSE
    /\ passes = <<>>
    /\ heap = <<>>
    /\ task = <<>>
    /\ InitNoPass

NextPush == PushStep

SpecPush == InitPush /\ [][NextPush]_vars

MaxExitCode == 2

\* config.organization_names
organization_names == << "org1", "org2" >>

\* the lists of organizations given on the command line
OrganizationLists ==
    {<<>>} \cup {<< a >> : a \in Organizations}
           \cup {<< a, b >> : a \in Organizations, b \in Organizations}

\* one run of _execute_operation
InitExecuteOperation ==
    /\ pc = "init"
    /\ operation \in
          [organizations : OrganizationLists,
           organization_names : {organization_names},
           codes : [Organizations -> 0..MaxExitCode],
           raising : {NoRaise}
                     \cup {RaiseAt(m, 0) : m \in {"init", "pre_execute", "post_execute"}}
                     \cup {RaiseAt(m, at) : m \in {"get_organization_config", "execute"},
                                            at \in 1..2},
           exit_code : {0},
           remaining : {<<>>},
           processed : {0},
           calls : {<<>>},
           exit : {Running}]
    /\ provider_calls = <<>>
    /\ apply_error = FALSE
    /\ passes = <<>>
    /\ heap = <<>>
    /\ files = <<>>
    /\ task = <<>>
    /\ InitNoPass

NextExecuteOperation == OperationStep

SpecExecuteOperation == InitExecuteOperation /\ [][NextExecuteOperation]_vars

\* bare calls of get_difference_from on two entities of one class
InitDiff ==
    /\ pc = "get_difference_from"
    /\ \E objects \in {AllSettings({NestedUnset}, {NestedList(<<>>)}), AllWebhooks} :
          /\ expected_object \in objects
          /\ current_object \in objects
    /\ InitLocals

NextDiff == GetDifferenceFrom

SpecDiff == InitDiff /\ [][NextDiff]_vars

---------------------------------------------------------------------------
(* Properties.                                                             *)

FieldsOf(object) == Range(all_fields(object.cls))

\* the patches about the organization settings themselves
SettingsPatches ==
    SelectSeq(patches, LAMBDA p : p.expected_object.cls = SettingsCls
                                  \/ p.current_object.cls = SettingsCls)

\* the patches about an entity of class cls
PatchesOf(cls) ==
    SelectSeq(patches, LAMBDA p : p.expected_object.cls = cls
                                  \/ p.current_object.cls = cls)

\* C1: reconciling organization settings against themselves hands no patch
\* to the handler, at any point of the pass, whatever fields are set or
\* unset and whatever the nested workflows and custom properties are.
C1_Idempotence ==
    expected_object = current_object => patches = <<>>

\* a finished pass of settings against themselves with set plain fields, set
\* workflows and a custom property
C1_Witness ==
    /\ pc = "done"
    /\ expected_object = current_object
    /\ ~is_unset(getattribute(expected_object, "plan"))
    /\ getattribute(expected_object, "security_managers").kind = "list"
    /\ getattribute(expected_object, "workflows").kind = "obj"
    /\ Len(getattribute(expected_object, "custom_properties").objs) > 0

\* C2: a field that is unset in the expected or in the current entity is no
\* key of the map get_difference_from returns, whatever the other value is.
C2_UnsetExclusion ==
    pc = "returned" =>
        \A field \in FieldsOf(expected_object) :
            (\/ is_unset(getattribute(expected_object, field))
             \/ is_unset(getattribute(current_object, field)))
            => field \notin DOMAIN diff_result

\* a returned diff with an entry, where one field is unset in the expected
\* entity only and another in the current entity only
C2_Witness ==
    /\ pc = "returned"
    /\ DictLen(diff_result) > 0
    /\ \E f, g \in FieldsOf(expected_object) :
          /\ is_unset(getattribute(expected_object, f))
          /\ is_set_and_valid(getattribute(current_object, f))
          /\ is_set_and_valid(getattribute(expected_object, g))
          /\ is_unset(getattribute(current_object, g))

\* the fields the entity type excludes from diffing depending on its state
C3_ConditionallyExcluded(self, field) ==
    \/ /\ self.cls = SettingsCls
       /\ field = "discussion_source_repository"
       /\ self.v.has_discussions = Bool(FALSE)
    \/ /\ self.cls = WebhookCls
       /\ field = "secret"

C3_Differs(self, other, field) ==
    /\ ~is_model_only(self.cls, field)
    /\ ~is_external_only(self.cls, field)
    /\ ~is_nested_model(self.cls, field)
    /\ ~C3_ConditionallyExcluded(self, field)
    /\ ~is_unset(self.v[field])
    /\ ~is_unset(other.v[field])
    /\ IF self.v[field].kind = "list" /\ other.v[field].kind = "list"
       THEN \E x \in Range(self.v[field].l) \cup Range(other.v[field].l) :
               Count(x, self.v[field].l) # Count(x, other.v[field].l)
       ELSE self.v[field] # other.v[field]

\* C3: get_difference_from returns exactly the fields that are eligible for
\* diffing (not model-only, external-only, nested or conditionally excluded,
\* and set on both sides) and whose values differ, lists compared without
\* regard to order; each maps to Change(from = current, to = expected).
C3_ExactDifference ==
    pc = "returned" =>
        /\ DOMAIN diff_result =
              {field \in FieldsOf(expected_object) :
                  C3_Differs(expected_object, current_object, field)}
        /\ \A field \in DOMAIN diff_result :
              /\ diff_result[field].from_value = current_object.v[field]
              /\ diff_result[field].to_value = expected_object.v[field]

\* a returned diff of settings with has_discussions false whose repositories
\* differ, with an entry for another field
C3_Witness ==
    /\ pc = "returned"
    /\ expected_object.cls = SettingsCls
    /\ expected_object.v.has_discussions = Bool(FALSE)
    /\ expected_object.v.discussion_source_repository = Str("org/repo")
    /\ current_object.v.discussion_source_repository = None
    /\ expected_object.v.security_managers = List(<<"a", "b">>)
    /\ current_object.v.security_managers = List(<<"b", "a">>)
    /\ DOMAIN diff_result = {"plan"}

Flag == "default_code_security_configurations_disabled"

TurnedOff ==
    /\ current_object.v[Flag] = Bool(TRUE)
    /\ expected_object.v[Flag] = Bool(FALSE)

TurnedOn ==
    /\ current_object.v[Flag] = Bool(FALSE)
    /\ expected_object.v[Flag] = Bool(TRUE)

\* C4: a difference of default_code_security_configurations_disabled from
\* true to false is dropped from the change set and alone yields no CHANGE
\* patch; one from false to true is kept in the change set of the CHANGE
\* patch; every other differing field stays in the change set as diffed.
C4_OneWayFlag ==
    LET raw == get_difference_from(expected_object, current_object)
    IN  /\ pc # "generate_live_patch" =>
              /\ TurnedOff => Flag \notin DOMAIN modified_settings
              /\ TurnedOn =>
                    /\ Flag \in DOMAIN modified_settings
                    /\ modified_settings[Flag] = Change(Bool(FALSE), Bool(TRUE))
              /\ DOMAIN modified_settings \ {Flag} = DOMAIN raw \ {Flag}
              /\ \A field \in DOMAIN raw \ {Flag} : modified_settings[field] = raw[field]
        /\ pc = "done" =>
              /\ TurnedOff =>
                    \A i \in 1..Len(SettingsPatches) :
                        Flag \notin DOMAIN SettingsPatches[i].changes.d
              /\ TurnedOff /\ DOMAIN raw = {Flag} => SettingsPatches = <<>>
              /\ TurnedOn =>
                    /\ Len(SettingsPatches) = 1
                    /\ Flag \in DOMAIN SettingsPatches[1].changes.d
                    /\ SettingsPatches[1].changes.d[Flag] = Change(Bool(FALSE), Bool(TRUE))

\* a finished pass where the flag goes from true to false and the plan
\* differs: the CHANGE patch holds the plan and not the flag
C4_Witness ==
    /\ pc = "done"
    /\ TurnedOff
    /\ Len(SettingsPatches) = 1
    /\ DOMAIN SettingsPatches[1].changes.d = {"plan"}

\* C5: for the settings themselves exactly one patch, a CHANGE, is emitted
\* when the filtered change set is non-empty and none when it is empty; no
\* ADD or REMOVE is ever emitted for the settings.
C5_OneChangeForSettings ==
    /\ \A i \in 1..Len(SettingsPatches) : SettingsPatches[i].patch_type = "CHANGE"
    /\ Len(SettingsPatches) <= 1
    /\ pc = "done" =>
          Len(SettingsPatches) = IF DictLen(modified_settings) > 0 THEN 1 ELSE 0
    /\ pc = "done" /\ Len(SettingsPatches) = 1 =>
          /\ SettingsPatches[1].expected_object = expected_object
          /\ SettingsPatches[1].current_object = current_object
          /\ SettingsPatches[1].changes = Changes(modified_settings)

\* a finished pass with one CHANGE for the settings next to an ADD and a
\* REMOVE of custom properties
C5_Witness ==
    /\ pc = "done"
    /\ Len(SettingsPatches) = 1
    /\ \E i, j \in 1..Len(patches) :
          patches[i].patch_type = "ADD" /\ patches[j].patch_type = "REMOVE"

C6_Shape(p) ==
    CASE p.patch_type = "ADD" ->
           ~is_none(p.expected_object) /\ is_none(p.current_object)
           /\ p.changes = NoChanges
      [] p.patch_type = "REMOVE" ->
           ~is_none(p.current_object) /\ is_none(p.expected_object)
           /\ p.changes = NoChanges
      [] p.patch_type = "CHANGE" ->
           ~is_none(p.expected_object) /\ ~is_none(p.current_object)
           /\ p.changes.kind = "dict" /\ DOMAIN p.changes.d # {}
      [] OTHER -> FALSE

\* C6: every LivePatch handed to the handler has the shape of its type: an
\* ADD has only the expected entity, a REMOVE only the current one, a CHANGE
\* both and a non-empty changes map.
C6_PatchShape ==
    \A i \in 1..Len(patches) : C6_Shape(patches[i])

\* a finished pass that handed over an ADD, a REMOVE and a CHANGE
C6_Witness ==
    /\ pc = "done"
    /\ \A t \in {"ADD", "REMOVE", "CHANGE"} :
          \E i \in 1..Len(patches) : patches[i].patch_type = t

IsSettingsPatch(p) ==
    p.expected_object.cls = SettingsCls \/ p.current_object.cls = SettingsCls

IsPatchOf(p, cls) == p.expected_object.cls = cls \/ p.current_object.cls = cls

\* C7: the CHANGE patch of the settings is handed to the handler before any
\* patch of a nested child.
C7_ParentFirst ==
    \A i, j \in 1..Len(patches) :
        (IsSettingsPatch(patches[j]) /\ ~is_none(patches[i].parent_object)) => j < i

\* a finished pass where the settings, a custom property and the workflows
\* all changed
C7_Witness ==
    /\ pc = "done"
    /\ Len(SettingsPatches) = 1
    /\ Len(PatchesOf(PropertyCls)) > 0
    /\ Len(PatchesOf(WorkflowCls)) > 0

\* C8 as claimed: every patch of workflows (declared first) is handed to the
\* handler before any patch of custom_properties.
C8_DeclarationOrder ==
    \A i, j \in 1..Len(patches) :
        (IsPatchOf(patches[i], WorkflowCls) /\ IsPatchOf(patches[j], PropertyCls))
        => i < j

\* C8: the patches of the nested children are handed over in the order in
\* which generate_live_patch reconciles them: every patch of
\* custom_properties comes before any patch of workflows.
C8_RecursionOrder ==
    \A i, j \in 1..Len(patches) :
        (IsPatchOf(patches[i], PropertyCls) /\ IsPatchOf(patches[j], WorkflowCls))
        => i < j

\* a finished pass with patches of custom properties and of the workflows
C8_Witness ==
    /\ pc = "done"
    /\ Len(PatchesOf(PropertyCls)) > 0
    /\ Len(PatchesOf(WorkflowCls)) > 0
    /\ patches[Len(patches)].patch_type = "CHANGE"
    /\ patches[1].patch_type # "CHANGE"

ExpectedProperties == getattribute(expected_object, "custom_properties").objs

CurrentProperties == getattribute(current_object, "custom_properties").objs

HasPatch(patch_type, expected, current) ==
    \E i \in 1..Len(patches) :
        /\ patches[i].patch_type = patch_type
        /\ patches[i].expected_object = expected
        /\ patches[i].current_object = current

\* C9: whether or not the settings themselves yielded a CHANGE patch, a
\* finished pass has handed over the patch of every changed nested child:
\* of the workflows when their fields differ, and of every added, removed
\* or changed custom property.
C9_ChildrenAlwaysReconciled ==
    pc = "done" =>
        /\ LET w == getattribute(expected_object, "workflows")
               x == getattribute(current_object, "workflows")
           IN  (w.kind = "obj" /\ w.obj.v # x.obj.v) => HasPatch("CHANGE", w.obj, x.obj)
        /\ \A e \in Range(ExpectedProperties) :
              /\ (\A c \in Range(CurrentProperties) : c.v.name # e.v.name)
                    => HasPatch("ADD", e, NoneObject)
              /\ \A c \in Range(CurrentProperties) :
                    (c.v.name = e.v.name /\ c.v.required # e.v.required)
                    => HasPatch("CHANGE", e, c)
        /\ \A c \in Range(CurrentProperties) :
              (\A e \in Range(ExpectedProperties) : c.v.name # e.v.name)
                    => HasPatch("REMOVE", NoneObject, c)

\* a finished pass without a patch of the settings, with a patch of a custom
\* property and one of the workflows
C9_Witness ==
    /\ pc = "done"
    /\ SettingsPatches = <<>>
    /\ modified_settings = <<>>
    /\ Len(PatchesOf(PropertyCls)) > 0
    /\ Len(PatchesOf(WorkflowCls)) > 0

NumPatches(patch_type, expected, current) ==
    Cardinality({i \in 1..Len(patches) :
                    /\ patches[i].patch_type = patch_type
                    /\ patches[i].expected_object = expected
                    /\ patches[i].current_object = current})

Orderings(q) == {r \in [1..Len(q) -> Range(q)] : Range(r) = Range(q)}

HasKey(objects, name) == \E o \in Range(objects) : o.v.name = name

\* C10: the custom properties are matched by name only: an expected one
\* without a current one of its name yields exactly one ADD, a current one
\* without an expected one of its name exactly one REMOVE, a matched pair one
\* CHANGE iff its fields differ and nothing otherwise; no other patch is
\* emitted, and the set of patches is the same for every order of the
\* expected and of the current list.
C10_KeyedMatching ==
    pc = "done" =>
        LET E == ExpectedProperties
            C == CurrentProperties
            added == {e \in Range(E) : ~HasKey(C, e.v.name)}
            removed == {c \in Range(C) : ~HasKey(E, c.v.name)}
            matched == {m \in Range(E) \X Range(C) : m[1].v.name = m[2].v.name}
            changed == {m \in matched : m[1].v # m[2].v}
        IN  /\ \A e \in Range(E) :
                  NumPatches("ADD", e, NoneObject) = IF e \in added THEN 1 ELSE 0
            /\ \A c \in Range(C) :
                  NumPatches("REMOVE", NoneObject, c) = IF c \in removed THEN 1 ELSE 0
            /\ \A m \in matched :
                  NumPatches("CHANGE", m[1], m[2]) = IF m \in changed THEN 1 ELSE 0
            /\ Len(patches) =
                  Cardinality(added) + Cardinality(removed) + Cardinality(changed)
            /\ \A i \in 1..Len(patches) :
                  patches[i].patch_type = "CHANGE" =>
                      patches[i].changes.d =
                          [f \in {"required"} |->
                              Change(patches[i].current_object.v.required,
                                     patches[i].expected_object.v.required)]
            /\ \A pe \in Orderings(E), pcur \in Orderings(C) :
                  Range(generate_live_patch_of_list(pe, pcur, expected_object))
                      = Range(patches)

\* a finished pass over two expected and two current properties that share
\* one name: an ADD, a REMOVE and a CHANGE
C10_Witness ==
    /\ pc = "done"
    /\ Len(ExpectedProperties) = 2
    /\ Len(CurrentProperties) = 2
    /\ Len(patches) = 3
    /\ \A t \in {"ADD", "REMOVE", "CHANGE"} :
          \E i \in 1..Len(patches) : patches[i].patch_type = t

Recorded == context.modified_org_settings

\* C11: during a pass the record of modified settings in the context only
\* grows: an entry once recorded is never removed or replaced, and the
\* record is never cleared.
C11_ContextAppendOnly ==
    [][\A field \in DOMAIN Recorded :
          /\ field \in DOMAIN Recorded'
          /\ Recorded'[field] = Recorded[field]]_vars

\* a finished pass whose context still holds the recorded changes, after
\* both children were reconciled
C11_Witness ==
    /\ pc = "done"
    /\ DOMAIN Recorded = {"plan", Flag}
    /\ Len(PatchesOf(PropertyCls)) > 0

\* C12: when the custom properties and the workflows are reconciled, the
\* context already holds the filtered change set of the settings: the
\* differing fields, without the one-way flag when it goes from true to
\* false, and the empty map when nothing changed.
C12_RecordedBeforeChildren ==
    pc \in {"custom_properties", "workflows"} =>
        /\ DOMAIN Recorded =
              {field \in FieldsOf(expected_object) :
                  C3_Differs(expected_object, current_object, field)}
              \ (IF TurnedOff THEN {Flag} ELSE {})
        /\ \A field \in DOMAIN Recorded :
              Recorded[field] = Change(current_object.v[field], expected_object.v[field])
        /\ Recorded = modified_settings

\* the custom properties are about to be reconciled, the context holds the
\* change of the plan and the dropped flag is not in it
C12_Witness ==
    /\ pc = "custom_properties"
    /\ TurnedOff
    /\ DOMAIN Recorded = {"plan"}
    /\ patches # <<>>

---------------------------------------------------------------------------
(* Application of the patch of the settings.                               *)

Applied == pc \in {"applied", "raised"}

AppliedChanges == patches[1].changes.d

\* the original statement of C13: the keys of the payload sent for the CHANGE
\* patch of the settings are exactly the keys of its changes map
C13_PayloadKeysAreChangedFields ==
    Applied => DOMAIN provider_calls[1].payload = DOMAIN AppliedChanges

\* C13: the payload sent for the CHANGE patch of the settings is built from
\* its changes map only: its keys are the changed fields that are provider
\* fields (a changed read-only field such as plan is left out), each value is
\* the to-value of that change, and no field absent from the changes map is
\* sent.
C13_PayloadFromChanges ==
    Applied =>
        LET payload == provider_calls[1].payload
        IN  /\ DOMAIN payload =
                  {field \in DOMAIN AppliedChanges :
                      ~is_read_only(SettingsCls, field)}
            /\ \A field \in DOMAIN payload :
                  payload[field] = AppliedChanges[field].to_value
            /\ \A field \in FieldsOf(expected_object) \ DOMAIN AppliedChanges :
                  field \notin DOMAIN payload

C13_Witness ==
    /\ pc = "applied"
    /\ DOMAIN AppliedChanges = {"plan", "has_discussions"}
    /\ DOMAIN provider_calls[1].payload = {"has_discussions"}
    /\ provider_calls[1].payload["has_discussions"] = Bool(TRUE)
    /\ ~is_unset(expected_object.v["security_managers"])

\* C14: applying one patch makes exactly one call of the provider,
\* update_org_settings, whether the call returns or raises; what it raises
\* reaches the caller; no call is made before the patch is applied.
C14_OneProviderCall ==
    /\ Applied =>
          /\ Len(provider_calls) = 1
          /\ provider_calls[1].method = "update_org_settings"
          /\ apply_error = (pc = "raised")
    /\ ~Applied => (provider_calls = <<>> /\ ~apply_error)

C14_Witness ==
    /\ pc = "raised"
    /\ apply_error
    /\ Len(provider_calls) = 1
    /\ provider_calls[1].payload # <<>>

---------------------------------------------------------------------------
(* Provider payloads.                                                      *)

PayloadKeys == DOMAIN provider_data.top \cup DOMAIN provider_data.config

PayloadValue(field) ==
    IF field \in DOMAIN provider_data.top
    THEN provider_data.top[field]
    ELSE provider_data.config[field]

\* C15: a provider payload contains no read-only, external-only, model-only
\* or nested-child field and no unset value, whatever keys the dict it is
\* built from has; each value it contains is the value of that key in the dict.
C15_PayloadExclusions ==
    pc = "returned" =>
        LET cls == expected_object.cls
        IN  /\ \A field \in PayloadKeys :
                  /\ ~is_read_only(cls, field)
                  /\ ~is_external_only(cls, field)
                  /\ ~is_model_only(cls, field)
                  /\ ~is_nested_model(cls, field)
                  /\ ~is_unset(PayloadValue(field))
                  /\ PayloadValue(field) = input_data[field]
            /\ DOMAIN provider_data.top \cap DOMAIN provider_data.config = {}

C15_Witness ==
    /\ pc = "returned"
    /\ expected_object.cls = SettingsCls
    /\ {"plan", "workflows", "custom_properties", "security_managers"} \subseteq DOMAIN input_data
    /\ ~is_unset(input_data["plan"])
    /\ ~is_unset(input_data["workflows"])
    /\ is_unset(input_data["security_managers"])
    /\ PayloadKeys = {"has_discussions", "discussion_source_repository", Flag}

C15_WebhookWitness ==
    /\ pc = "returned"
    /\ expected_object.cls = WebhookCls
    /\ "id" \in DOMAIN input_data
    /\ ~is_unset(input_data["id"])
    /\ DOMAIN provider_data.top = {"active"}
    /\ DOMAIN provider_data.config = {"url", "secret"}

---------------------------------------------------------------------------
(* Validation.                                                             *)

Failures == validation_context.validation_failures

Validated(cls) == pc = "validated" /\ expected_object.cls = cls

\* the call of validate on an entity of class cls is taken
Validating(cls) == pc = "validate" /\ pc' = "validated" /\ expected_object.cls = cls

MissingDiscussionRepositoryFailure == <<"ERROR", MissingDiscussionRepository>>

Warnings(failures) == Cardinality({i \in 1..Len(failures) : failures[i][1] = "WARNING"})

\* C16: validating settings with has_discussions true and
\* discussion_source_repository unset adds exactly one ERROR for the missing
\* discussion repository; with has_discussions false it adds none.
C16_MissingDiscussionRepository ==
    [][Validating(SettingsCls) =>
          LET missing(failures) == Count(MissingDiscussionRepositoryFailure, failures)
          IN  /\ (/\ is_True(expected_object.v["has_discussions"])
                  /\ is_unset(expected_object.v["discussion_source_repository"]))
                 => missing(Failures') = missing(Failures) + 1
              /\ is_False(expected_object.v["has_discussions"])
                 => missing(Failures') = missing(Failures)]_vars

C16_Witness ==
    /\ Validated(SettingsCls)
    /\ is_True(expected_object.v["has_discussions"])
    /\ is_unset(expected_object.v["discussion_source_repository"])
    /\ Count(MissingDiscussionRepositoryFailure, Failures) = 1
    /\ Len(Failures) = 4

\* C17: validating a repository with private false and allow_forking false
\* adds exactly one WARNING, with private false and allow_forking true it adds
\* none, whatever the other fields of the repository and of the settings of
\* the organization are.
C17_PublicForking ==
    [][Validating(RepositoryCls) /\ is_False(expected_object.v["private"]) =>
          /\ is_False(expected_object.v["allow_forking"])
             => Warnings(Failures') = Warnings(Failures) + 1
          /\ is_True(expected_object.v["allow_forking"])
             => Warnings(Failures') = Warnings(Failures)]_vars

C17_Witness ==
    /\ Validated(RepositoryCls)
    /\ is_False(expected_object.v["private"])
    /\ is_False(expected_object.v["allow_forking"])
    /\ Failures[1] = <<"WARNING", ForkingDisabled(expected_object)>>
    /\ Len(Failures) = 2
    /\ Failures[2][1] = "ERROR"

\* C19: validate changes neither the entity nor its parent; it only appends
\* failures to the list of the context, whose earlier failures stay in place.
C19_ValidateOnlyAppends ==
    [][pc = "validate" =>
          /\ expected_object' = expected_object
          /\ validation_parent' = validation_parent
          /\ validation_context'.template_dir = validation_context.template_dir
          /\ Len(Failures') >= Len(Failures)
          /\ SubSeq(Failures', 1, Len(Failures)) = Failures]_vars

C19_Witness ==
    /\ pc = "validated"
    /\ Len(Failures) >= 3
    /\ Failures[1] = <<"WARNING", "earlier failure">>
    /\ expected_object.cls \in {SettingsCls, WebhookCls}

---------------------------------------------------------------------------
(* Construction from a document.                                           *)

\* field is a key of the document the entity was constructed from
InDocument(field) == field \in DOMAIN input_data.v \cup DOMAIN input_data.n

IsUnsetField(self, field) ==
    IF is_nested_model(self.cls, field)
    THEN self.n[field].kind = "unset"
    ELSE is_unset(self.v[field])

\* C20: every declared field that is absent from the document
\* OrganizationSettings.from_model_data constructs the settings from has the
\* unset sentinel as its value, workflows and custom_properties included.
C20_AbsentIsUnset ==
    pc = "constructed" =>
        \A field \in FieldsOf(expected_object) :
            ~InDocument(field) => IsUnsetField(expected_object, field)

\* of the fields absent from the document all but custom_properties are
\* unset, and custom_properties is the empty list
C20_AbsentIsUnsetButCustomProperties ==
    pc = "constructed" =>
        \A field \in FieldsOf(expected_object) :
            ~InDocument(field) =>
                IF field = "custom_properties"
                THEN expected_object.n[field] = NestedList(<<>>)
                ELSE IsUnsetField(expected_object, field)

C20_Witness ==
    /\ pc = "constructed"
    /\ DOMAIN input_data.v = {"has_discussions"}
    /\ DOMAIN input_data.n = {}
    /\ expected_object.n["custom_properties"] = NestedList(<<>>)
    /\ expected_object.n["workflows"] = NestedUnset
    /\ is_unset(expected_object.v["plan"])

\* the keys of the document that are no fields of the entity type constructed
UnknownFields(cls) ==
    (DOMAIN input_data.v \cup DOMAIN input_data.n) \ Range(all_fields(cls))

\* C21: a document that holds a key unknown to the entity type is rejected:
\* no entity is ever constructed from it.
C21_UnknownFieldRejected ==
    pc = "constructed" => UnknownFields(expected_object.cls) = {}

C21_Witness ==
    /\ pc = "constructed"
    /\ expected_object.cls = SettingsCls
    /\ UnknownFields(SettingsCls) = {"unknown_field"}
    /\ DOMAIN expected_object.v \cup DOMAIN expected_object.n = FieldsOf(expected_object)
    /\ expected_object.v["has_discussions"] = Bool(TRUE)

---------------------------------------------------------------------------
(* Secrets.                                                                *)

\* the two webhooks agree on every field but secret
DifferOnlyInSecret ==
    /\ expected_object.v["secret"] # current_object.v["secret"]
    /\ \A field \in FieldsOf(expected_object) \ {"secret"} :
          getattribute(expected_object, field) = getattribute(current_object, field)

\* C22: the diff of two organization webhooks never has the key secret,
\* whatever their secrets are, and is empty when the two differ only in secret.
C22_SecretNeverDiffed ==
    (pc = "returned" /\ expected_object.cls = WebhookCls) =>
        /\ "secret" \notin DOMAIN diff_result
        /\ DifferOnlyInSecret => diff_result = <<>>

C22_Witness ==
    /\ pc = "returned"
    /\ expected_object.cls = WebhookCls
    /\ expected_object.v["secret"] = Str("s1")
    /\ current_object.v["secret"] = Str("s2")
    /\ DifferOnlyInSecret
    /\ ~is_unset(expected_object.v["active"])
    /\ diff_result = <<>>

---------------------------------------------------------------------------
(* Lifecycle of a patch.                                                   *)

\* C23: a LivePatch handed to the handler keeps all its fields through the
\* rest of the pass, the recording of the changes in the context included, and
\* through apply.
C23_PatchNeverMutated ==
    [][\A i \in 1..Len(patches) :
          /\ i <= Len(patches')
          /\ patches'[i] = patches[i]]_vars

C23_Witness ==
    /\ pc = "applied"
    /\ Len(patches) >= 3
    /\ patches[1].changes.kind = "dict"
    /\ DOMAIN patches[1].changes.d = {"plan"}
    /\ patches[1].changes.d = Recorded
    /\ Len(provider_calls) = 1

---------------------------------------------------------------------------
(* Isolation of the passes of two organizations.                           *)

HasContext(org) == passes[org].pc # "start"

\* the dict the context of org holds
ContextDict(org) == heap[passes[org].context.modified_org_settings]

\* C24: the contexts of two organizations never hold the same dict, and a step
\* of the pass of one organization, the recording of its modified settings
\* included, leaves what the context of the other holds as it was, in every
\* interleaving of the two passes.
C24_ContextIsolation ==
    [][\A a, b \in Organizations :
          (a # b /\ HasContext(b) /\ passes'[b] = passes[b]) =>
              /\ ContextDict(b)' = ContextDict(b)
              /\ HasContext(a)' =>
                    passes'[a].context.modified_org_settings #
                        passes'[b].context.modified_org_settings]_vars

C24_Witness ==
    /\ passes["org1"].pc = "done"
    /\ passes["org2"].pc = "done"
    /\ DOMAIN ContextDict("org1") = {"plan", Flag}
    /\ ContextDict("org2") = <<>>
    /\ passes["org2"].context.modified_org_settings
          < passes["org1"].context.modified_org_settings
    /\ passes["org1"].patches # <<>>

---------------------------------------------------------------------------
(* CheckConfigurationInSyncTask.                                           *)

Executed == pc \in {"post_execute", "finished", "raised"}

\* C25: _execute returns true only if the plan operation completed and
\* reported a diff status with no changes; when the plan reports a change or
\* ends without reporting a diff status, the result is not true.
C25_InSyncOnlyIfReported ==
    (Executed /\ task.result = ResultOf(TRUE)) =>
        /\ task.plan.reported
        /\ task.plan.total_changes = 0

\* what holds of the result: a reported diff status with changes never gives
\* true
C25_ChangesNeverInSync ==
    (Executed /\ task.plan.reported /\ task.plan.total_changes > 0) =>
        task.result # ResultOf(TRUE)

C25_Witness ==
    /\ pc = "finished"
    /\ ~task.plan.reported
    /\ task.plan.exit_code = 1
    /\ task.result = ResultOf(TRUE)
    /\ provider_calls[Len(provider_calls)] = create_commit_status("success")

FinalStates == {"success", "error", "failure"}

\* the positions of the calls that post a status of the given states
StatusCalls(states) ==
    {i \in 1..Len(provider_calls) :
        /\ provider_calls[i].method = "create_commit_status"
        /\ provider_calls[i].argument \in states}

\* C26: a run of the task posts exactly one final status, after the pending
\* status: success iff the result is true, error iff it is false, failure iff
\* _execute raised.
C26_OneFinalStatus ==
    pc \in {"finished", "raised"} =>
        /\ Cardinality(StatusCalls(FinalStates)) = 1
        /\ Cardinality(StatusCalls({"pending"})) = 1
        /\ \A i \in StatusCalls({"pending"}), j \in StatusCalls(FinalStates) : i < j
        /\ StatusCalls({"success"}) # {} <=> task.result = ResultOf(TRUE)
        /\ StatusCalls({"error"}) # {} <=> task.result = ResultOf(FALSE)
        /\ StatusCalls({"failure"}) # {} <=> task.result = AnException

\* what holds of the statuses: the claim, for the runs in which _pre_execute
\* got its pull request
C26_OneFinalStatusWithPullRequest ==
    (pc \in {"finished", "raised"} /\ task.pull_request = "set") => C26_OneFinalStatus

C26_Witness ==
    /\ pc = "raised"
    /\ task.pull_request_or_number = "int"
    /\ ~task.response_valid
    /\ task.result = AnException
    /\ StatusCalls(FinalStates \cup {"pending"}) = {}

---------------------------------------------------------------------------
(* ImportOperation.                                                        *)

HasBackupOfDefinition ==
    /\ exists(backup_file)
    /\ files[backup_file] = files[org_file_name]

\* C27: an existing definition is never overwritten without a backup: when
\* the provider is queried and when the definition file is written, the
\* backup file holds the content the definition had before the run, and the
\* write leaves the backup as it is.
C27_BackupBeforeOverwrite ==
    [][/\ (provider_calls' # provider_calls /\ exists(org_file_name))
          => HasBackupOfDefinition
       /\ (exists(org_file_name) /\ files'[org_file_name] # files[org_file_name])
          => /\ HasBackupOfDefinition
             /\ files'[backup_file] = files[backup_file]]_vars

C27_Witness ==
    /\ pc = "returned"
    /\ operation.result = Returned(0)
    /\ exists(org_file_name)
    /\ exists(backup_file)
    /\ files[org_file_name] = "imported"
    /\ files[backup_file] = "old"
    /\ provider_calls = << load_from_provider >>
    /\ operation.prompts = 1

\* C28: with an existing definition, force_processing false and no approval,
\* execute returns 1 at once, makes no backup, does not query the provider
\* and does not write the definition; with force_processing true it does not
\* prompt.
C28_CancelledImport ==
    [][/\ pc = "import" =>
             /\ (/\ exists(org_file_name)
                 /\ ~operation.force_processing
                 /\ ~operation.approval)
                => /\ pc' = "returned"
                   /\ operation'.result = Returned(1)
                   /\ files' = files
                   /\ provider_calls' = provider_calls
             /\ operation.force_processing => operation'.prompts = operation.prompts
       /\ pc # "returned"]_vars

C28_Witness ==
    /\ pc = "returned"
    /\ operation.result = Returned(1)
    /\ ~operation.force_processing
    /\ ~operation.approval
    /\ operation.prompts = 1
    /\ operation.credentials_ok
    /\ files = [f \in {org_file_name, backup_file} |-> IF f = org_file_name THEN "old" ELSE "older"]
    /\ provider_calls = <<>>

---------------------------------------------------------------------------
(* PushOperation.                                                          *)

UpdateContentCalls ==
    {i \in 1..Len(provider_calls) : provider_calls[i].method = "update_content"}

---------------------------------------------------------------------------
(* _execute_operation.                                                     *)

\* the organizations a run is to process
ToProcess ==
    IF operation.organizations = <<>> THEN operation.organization_names
    ELSE operation.organizations

\* the calls of a run in which nothing raises
AllCalls ==
    [i \in 1..(2 * Len(ToProcess) + 3) |->
        IF i = 1 THEN OperationCall("init", "")
        ELSE IF i = 2 THEN OperationCall("pre_execute", "")
        ELSE IF i = 2 * Len(ToProcess) + 3 THEN OperationCall("post_execute", "")
        ELSE IF i % 2 = 1 THEN OperationCall("get_organization_config", ToProcess[(i - 1) \div 2])
        ELSE OperationCall("execute", ToProcess[(i - 2) \div 2])]

IsPrefixOf(a, b) == Len(a) <= Len(b) /\ a = SubSeq(b, 1, Len(a))

ExitCodes == {operation.codes[ToProcess[i]] : i \in 1..Len(ToProcess)}

\* C30: the calls made are, in order, init, pre_execute, execute for each
\* organization given (for each configured organization when none is given)
\* and post_execute; a run in which nothing raises makes them all and exits
\* with the maximum of the exit codes of execute (0 when it is less); a run
\* in which a call raises makes no call after that one, so no further
\* organization is processed and post_execute is not called, and exits
\* with 2.
C30_ExecuteOperation ==
    /\ IsPrefixOf(operation.calls, AllCalls)
    /\ pc = "exited" =>
          \/ /\ operation.calls = AllCalls
             /\ operation.raising # RaiseAt("post_execute", 0)
             /\ operation.exit.kind = "exit"
             /\ \A code \in ExitCodes \cup {0} : operation.exit.code >= code
             /\ operation.exit.code \in ExitCodes \cup {0}
          \/ /\ operation.calls # <<>>
             /\ operation.calls[Len(operation.calls)].method = operation.raising.method
             /\ operation.raising.method # "post_execute"
                   => \A i \in 1..Len(operation.calls) :
                          operation.calls[i].method # "post_execute"
             /\ operation.exit = sys_exit(2)

C30_Witness ==
    /\ pc = "exited"
    /\ operation.organizations = << "org2", "org1" >>
    /\ operation.raising = NoRaise
    /\ operation.codes = [o \in Organizations |-> IF o = "org2" THEN 1 ELSE 0]
    /\ operation.exit = sys_exit(1)
    /\ Len(operation.calls) = 7
    /\ operation.calls[4] = OperationCall("execute", "org2")
    /\ operation.calls[6] = OperationCall("execute", "org1")

C30_WitnessRaise ==
    /\ pc = "exited"
    /\ operation.organizations = <<>>
    /\ operation.raising = RaiseAt("execute", 1)
    /\ operation.calls[Len(operation.calls)] = OperationCall("execute", "org1")
    /\ operation.exit = sys_exit(2)

====
